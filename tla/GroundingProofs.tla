---------------------------- MODULE GroundingProofs ----------------------------
(***************************************************************************)
(* The grounding server, for every corpus and every call.  The walk keeps  *)
(* a list of entries, in the order of the sidebar, that leads to every     *)
(* chapter not collected yet; so the index holds every chapter once, in    *)
(* that order.  From what the index is made of follow the answers of the   *)
(* tools: counting <details> tags shows what a text withholds, and sorting *)
(* by score that what a search leaves out is no better.                    *)
(***************************************************************************)
EXTENDS GroundingServer, TLAPS, FiniteSetTheorems, WellFoundedInduction

-------------------------------------------------------------------------------
(***************************************************************************)
(* Sorting.                                                                *)
(***************************************************************************)

StrictlyOrders(before, S) ==
  /\ \A x \in S : <<x, x>> \notin before
  /\ \A x, y, z \in S : <<x, y>> \in before /\ <<y, z>> \in before => <<x, z>> \in before
  /\ \A x, y \in S : x # y => <<x, y>> \in before \/ <<y, x>> \in before

\* Every element once, in order.
Arranges(f, S, before) ==
  /\ Cardinality(S) \in Nat
  /\ f \in [1 .. Cardinality(S) -> S]
  /\ \A x \in S : \E i \in 1 .. Cardinality(S) : f[i] = x
  /\ \A i, j \in 1 .. Cardinality(S) : i < j => <<f[i], f[j]>> \in before

LEMMA SortedArranges ==
  ASSUME NEW S, IsFiniteSet(S), NEW before, StrictlyOrders(before, S)
  PROVE  Arranges(Sorted(S, before), S, before)
<1> DEFINE n == Cardinality(S)
           Pred(x) == {y \in S : <<y, x>> \in before}
<1>1. n \in Nat /\ \A T \in SUBSET S : IsFiniteSet(T) /\ Cardinality(T) \in Nat /\ Cardinality(T) <= n
  <2>1. \A T \in SUBSET S : IsFiniteSet(T) /\ Cardinality(T) <= n
    BY FS_Subset
  <2> QED
    BY <2>1, FS_CardinalityType
<1>2. ASSUME NEW x \in S PROVE Pred(x) \in SUBSET S /\ IsFiniteSet(Pred(x)) /\ Cardinality(Pred(x)) \in Nat
  BY <1>1
<1>3. ASSUME NEW x \in S PROVE Cardinality(Pred(x)) < n
  <2>1. IsFiniteSet(S \ {x}) /\ Cardinality(S \ {x}) = n - 1
    BY FS_RemoveElement
  <2>2. Pred(x) \in SUBSET (S \ {x})
    BY DEF StrictlyOrders
  <2> HIDE DEF Pred
  <2>3. Cardinality(Pred(x)) <= Cardinality(S \ {x})
    BY <2>1, <2>2, FS_Subset
  <2> QED
    BY <1>1, <1>2, <2>1, <2>3
<1>4. ASSUME NEW x \in S, NEW y \in S, <<x, y>> \in before
      PROVE  Cardinality(Pred(x)) < Cardinality(Pred(y))
  <2>1. x \notin Pred(x) /\ Pred(x) \cup {x} \in SUBSET Pred(y)
    BY <1>4 DEF StrictlyOrders
  <2>2. Cardinality(Pred(x) \cup {x}) = Cardinality(Pred(x)) + 1
    BY <1>2, <2>1, FS_AddElement
  <2>3. Cardinality(Pred(x) \cup {x}) <= Cardinality(Pred(y))
    BY <1>2, <2>1, FS_Subset
  <2> QED
    BY <1>2, <2>2, <2>3
<1> DEFINE below == [x \in S |-> Cardinality(Pred(x))]
<1>5. /\ \A x \in S : below[x] = Cardinality(Pred(x))
      /\ below \in [S -> 0 .. n - 1]
      /\ \A x, y \in S : <<x, y>> \in before => below[x] < below[y]
  <2>1. \A x \in S : below[x] = Cardinality(Pred(x))
    OBVIOUS
  <2>2. ASSUME NEW x \in S PROVE below[x] \in 0 .. n - 1
    <3>1. n \in Nat /\ Cardinality(Pred(x)) \in Nat /\ Cardinality(Pred(x)) < n
      BY <1>1, <1>2, <1>3
    <3> QED
      BY <2>1, <3>1
  <2>3. below = [x \in S |-> below[x]]
    OBVIOUS
  <2>4. below \in [S -> 0 .. n - 1]
    <3> HIDE DEF below
    <3> QED
      BY <2>2, <2>3
  <2>5. ASSUME NEW x \in S, NEW y \in S, <<x, y>> \in before PROVE below[x] < below[y]
    BY <1>4, <2>1, <2>5
  <2> QED
    BY <2>1, <2>4, <2>5
<1> HIDE DEF below
<1>6. \A x, y \in S : x # y => below[x] # below[y]
  <2> SUFFICES ASSUME NEW x \in S, NEW y \in S, x # y PROVE below[x] # below[y]
    OBVIOUS
  <2>1. below[x] \in Int /\ below[y] \in Int
    BY <1>1, <1>5
  <2>2. below[x] < below[y] \/ below[y] < below[x]
    BY <1>5 DEF StrictlyOrders
  <2> QED
    BY <2>1, <2>2
<1>7. below \in Surjection(S, 0 .. n - 1)
  <2>1. below \in Injection(S, 0 .. n - 1)
    BY <1>5, <1>6 DEF Injection, IsInjective
  <2>2. IsFiniteSet(0 .. n - 1) /\ Cardinality(0 .. n - 1) = n
    <3>1. n \in Nat
      BY <1>1
    <3> HIDE DEF n
    <3>2. PICK m \in Int : m = n - 1
      BY <3>1
    <3>3. IsFiniteSet(0 .. m) /\ Cardinality(0 .. m) = IF 0 > m THEN 0 ELSE m - 0 + 1
      BY FS_Interval
    <3> QED
      BY <3>1, <3>2, <3>3
  <2> QED
    BY <2>1, <2>2, FS_Injection
<1> DEFINE f == Sorted(S, before)
<1>8. f = [i \in 1 .. n |-> CHOOSE x \in S : Cardinality(Pred(x)) = i - 1]
  BY DEF Sorted
<1>9. ASSUME NEW i \in 1 .. n PROVE f[i] \in S /\ below[f[i]] = i - 1
  <2>1. i - 1 \in 0 .. n - 1
    BY <1>1
  <2>2. \E x \in S : below[x] = i - 1
    BY <1>7, <2>1 DEF Surjection
  <2>3. \E x \in S : Cardinality(Pred(x)) = i - 1
    BY <1>5, <2>2
  <2>4. f[i] = CHOOSE x \in S : Cardinality(Pred(x)) = i - 1
    BY <1>8
  <2>5. f[i] \in S /\ Cardinality(Pred(f[i])) = i - 1
    BY <2>3, <2>4
  <2> QED
    BY <1>5, <2>5
<1>10. DOMAIN f = 1 .. n /\ f = [i \in 1 .. n |-> f[i]]
  BY <1>8
<1> HIDE DEF f, Pred
<1>11. f \in [1 .. n -> S]
  BY <1>9, <1>10
<1>12. ASSUME NEW x \in S PROVE \E i \in 1 .. n : f[i] = x
  <2>1. below[x] \in 0 .. n - 1
    BY <1>5
  <2>2. PICK i \in 1 .. n : i = below[x] + 1
    BY <1>1, <2>1
  <2>3. f[i] \in S /\ below[f[i]] = below[x]
    BY <1>1, <1>9, <2>1, <2>2
  <2> QED
    BY <1>6, <2>3
<1>13. ASSUME NEW i \in 1 .. n, NEW j \in 1 .. n, i < j PROVE <<f[i], f[j]>> \in before
  <2>1. f[i] \in S /\ f[j] \in S /\ below[f[i]] = i - 1 /\ below[f[j]] = j - 1
    BY <1>9
  <2>2. ~ below[f[j]] < below[f[i]] /\ below[f[i]] # below[f[j]]
    BY <1>1, <1>13, <2>1
  <2>3. <<f[j], f[i]>> \notin before /\ f[i] # f[j]
    BY <1>5, <2>1, <2>2
  <2> QED
    BY <2>1, <2>3 DEF StrictlyOrders
<1> QED
  BY <1>1, <1>11, <1>12, <1>13 DEF Arranges, f

\* What Chosen takes from a sequence, by places that grow.
LEMMA ChosenAt ==
  ASSUME NEW seq, NEW n \in Nat, NEW places \in SUBSET (1 .. n)
  PROVE  /\ Cardinality(places) \in Nat /\ Cardinality(places) <= n
         /\ \E place \in [1 .. Cardinality(places) -> places] :
              /\ Chosen(seq, places) = [i \in 1 .. Cardinality(places) |-> seq[place[i]]]
              /\ \A p \in places : \E i \in 1 .. Cardinality(places) : place[i] = p
              /\ \A i, j \in 1 .. Cardinality(places) : i < j => place[i] < place[j]
<1> DEFINE before == {p \in places \X places : p[1] < p[2]}
           place == Sorted(places, before)
<1>1. IsFiniteSet(1 .. n) /\ Cardinality(1 .. n) = n
  BY FS_Interval
<1>2. IsFiniteSet(places) /\ Cardinality(places) <= n
  BY <1>1, FS_Subset
<1>3. StrictlyOrders(before, places)
  BY DEF StrictlyOrders
<1>4. Chosen(seq, places) = [i \in DOMAIN place |-> seq[place[i]]]
  BY DEF Chosen
<1> HIDE DEF place
<1>5. Arranges(place, places, before)
  BY <1>2, <1>3, SortedArranges DEF place
<1>6. \A i, j \in 1 .. Cardinality(places) : i < j => place[i] < place[j]
  BY <1>5 DEF Arranges
<1> QED
  BY <1>2, <1>4, <1>5, <1>6 DEF Arranges

\* What is at the places, and no more.
Takes(out, seq, places, T) ==
  /\ out \in Seq(T) /\ Len(out) = Cardinality(places) /\ Len(out) \in Nat
  /\ DOMAIN out = 1 .. Cardinality(places)
  /\ {out[i] : i \in DOMAIN out} = {seq[p] : p \in places}

LEMMA ChosenIs ==
  ASSUME NEW T, NEW seq, NEW n \in Nat, NEW places \in SUBSET (1 .. n),
         \A p \in places : seq[p] \in T
  PROVE  Takes(Chosen(seq, places), seq, places, T)
<1> DEFINE c == Cardinality(places)
<1>1. c \in Nat /\ \E place \in [1 .. c -> places] :
              /\ Chosen(seq, places) = [i \in 1 .. c |-> seq[place[i]]]
              /\ \A p \in places : \E i \in 1 .. c : place[i] = p
              /\ \A i, j \in 1 .. c : i < j => place[i] < place[j]
  BY ChosenAt, ZenonT(90)
<1> HIDE DEF c
<1>2. PICK place \in [1 .. c -> places] :
        /\ Chosen(seq, places) = [i \in 1 .. c |-> seq[place[i]]]
        /\ \A p \in places : \E i \in 1 .. c : place[i] = p
  BY <1>1
<1>3. DOMAIN Chosen(seq, places) = 1 .. c
  BY <1>2
<1>4. Chosen(seq, places) \in [1 .. c -> T]
  BY <1>2
<1>5. Chosen(seq, places) \in Seq(T) /\ Len(Chosen(seq, places)) = c
  BY <1>1, <1>3, <1>4
<1>6. {Chosen(seq, places)[i] : i \in 1 .. c} = {seq[p] : p \in places}
  <2>1. \A i \in 1 .. c : place[i] \in places /\ Chosen(seq, places)[i] = seq[place[i]]
    BY <1>2
  <2> QED
    BY <1>2, <2>1
<1> QED
  BY <1>1, <1>3, <1>5, <1>6 DEF c, Takes
-------------------------------------------------------------------------------
(***************************************************************************)
(* The orders that the walk sorts by.                                      *)
(***************************************************************************)

\* No two entries have the same place.
LEMMA PlacesAreDistinct ==
  /\ \A word \in Word, dir \in BOOLEAN : Place(word, dir) \in Nat /\ Alphabet[Place(word, dir)] = <<word, dir>>
  /\ \A v, w \in Word, d, e \in BOOLEAN : Place(v, d) = Place(w, e) => v = w /\ d = e
<1>1. ASSUME NEW word \in Word, NEW dir \in BOOLEAN
      PROVE  Place(word, dir) \in Nat /\ Alphabet[Place(word, dir)] = <<word, dir>>
  <2>1. \E i \in DOMAIN Alphabet : Alphabet[i] = <<word, dir>>
    BY CorpusAssumption
  <2>2. Place(word, dir) \in DOMAIN Alphabet /\ Alphabet[Place(word, dir)] = <<word, dir>>
    BY <2>1 DEF Place
  <2>3. Alphabet \in Seq(Word \X BOOLEAN)
    BY CorpusAssumption
  <2>4. \A places \in Seq(Word \X BOOLEAN) : DOMAIN places \subseteq Nat
    OBVIOUS
  <2> QED
    BY <2>2, <2>3, <2>4
<1>2. ASSUME NEW v \in Word, NEW w \in Word, NEW d \in BOOLEAN, NEW e \in BOOLEAN, Place(v, d) = Place(w, e)
      PROVE  v = w /\ d = e
  <2>1. <<v, d>> = <<w, e>>
    BY <1>1, <1>2
  <2> QED
    BY <2>1
<1> QED
  BY <1>1, <1>2

LEMMA NumberOrNone ==
  /\ NoNumber \notin Nat /\ AfterAll \in Nat
  /\ \A name \in Name : (name.num = NoNumber \/ name.num \in 0 .. AfterAll - 1) /\ name.word \in Word
<1>1. NoNumber \notin Nat /\ AfterAll \in Nat
  BY CorpusAssumption
<1>2. ASSUME NEW name \in Name PROVE (name.num = NoNumber \/ name.num \in 0 .. AfterAll - 1) /\ name.word \in Word
  BY DEF Name
<1> QED
  BY <1>1, <1>2

LEMMA RankTells ==
  ASSUME NEW a \in Name, NEW b \in Name
  PROVE  /\ Rank(a) \in Int
         /\ a.word = b.word /\ Rank(a) = Rank(b) => a = b
<1>1. /\ a.num = NoNumber \/ a.num \in 0 .. AfterAll - 1
      /\ b.num = NoNumber \/ b.num \in 0 .. AfterAll - 1
  BY NumberOrNone
<1>2. NoNumber \notin 0 .. AfterAll - 1 /\ AfterAll \in Nat
  BY NumberOrNone
<1>3. Rank(a) \in Int
  BY <1>1, <1>2 DEF Rank
<1>4. a.word = b.word /\ Rank(a) = Rank(b) => a.num = b.num
  BY <1>1, <1>2 DEF Rank
<1>5. a.word = b.word /\ a.num = b.num => a = b
  BY DEF Name
<1> QED
  BY <1>3, <1>4, <1>5

DirEntry == [name : Name, dir : BOOLEAN]

LEMMA EntriesAreOrdered ==
  ASSUME NEW S \in SUBSET DirEntry
  PROVE  StrictlyOrders({p \in S \X S : EntryBefore(p[1], p[2])}, S)
<1> DEFINE R(e) == Rank(e.name)
           P(e) == Place(e.name.word, e.dir)
<1>1. ASSUME NEW e \in S PROVE R(e) \in Int /\ P(e) \in Nat
  BY RankTells, PlacesAreDistinct DEF DirEntry, Name
<1>2. ASSUME NEW a \in S, NEW b \in S, R(a) = R(b), P(a) = P(b) PROVE a = b
  <2>1. /\ a.name \in Name /\ b.name \in Name /\ a.dir \in BOOLEAN /\ b.dir \in BOOLEAN
        /\ a.name.word \in Word /\ b.name.word \in Word
    BY DEF DirEntry, Name
  <2>2. a.name.word = b.name.word /\ a.dir = b.dir
    BY <1>2, <2>1, PlacesAreDistinct
  <2>3. a.name = b.name
    BY <1>2, <2>1, <2>2, RankTells
  <2> QED
    BY <2>2, <2>3 DEF DirEntry
<1>3. \A a, b \in S : EntryBefore(a, b) <=> R(a) < R(b) \/ (R(a) = R(b) /\ P(a) < P(b))
  BY DEF EntryBefore
<1> HIDE DEF R, P
<1> DEFINE before == {p \in S \X S : EntryBefore(p[1], p[2])}
<1>4. \A a, b \in S : <<a, b>> \in before <=> R(a) < R(b) \/ (R(a) = R(b) /\ P(a) < P(b))
  BY <1>3
<1> HIDE DEF before
<1>5. \A x \in S : <<x, x>> \notin before
  BY <1>1, <1>4
<1>6. ASSUME NEW x \in S, NEW y \in S, NEW z \in S, <<x, y>> \in before, <<y, z>> \in before
      PROVE  <<x, z>> \in before
  BY <1>1, <1>4, <1>6
<1>7. ASSUME NEW x \in S, NEW y \in S, x # y PROVE <<x, y>> \in before \/ <<y, x>> \in before
  BY <1>1, <1>2, <1>4, <1>7
<1>8. StrictlyOrders(before, S)
  BY <1>5, <1>6, <1>7 DEF StrictlyOrders
<1> QED
  BY <1>8 DEF before

LEMMA BooksAreOrdered ==
  ASSUME NEW S \in SUBSET {name \in Name : name.num = NoNumber}
  PROVE  StrictlyOrders({p \in S \X S : BookBefore(p[1], p[2])}, S)
<1> DEFINE R(e) == BookRank(e)
           P(e) == Place(e.word, TRUE)
<1>1. ASSUME NEW e \in S PROVE R(e) \in Int /\ P(e) \in Nat
  <2>1. e.word \in Word
    BY DEF Name
  <2>2. BookOrder[e.word] \in Nat \cup {NoNumber}
    BY <2>1, CorpusAssumption
  <2>3. BookRank(e) \in Int
    <3>1. CASE BookOrder[e.word] \in {NoNumber, 0}
      BY <3>1, CorpusAssumption DEF BookRank
    <3>2. CASE BookOrder[e.word] \notin {NoNumber, 0}
      BY <2>2, <3>2 DEF BookRank
    <3> QED
      BY <3>1, <3>2
  <2>4. Place(e.word, TRUE) \in Nat
    BY <2>1, PlacesAreDistinct
  <2> QED
    BY <2>3, <2>4
<1>2. ASSUME NEW a \in S, NEW b \in S, P(a) = P(b) PROVE a = b
  <2>1. a \in Name /\ b \in Name /\ a.num = b.num /\ a.word \in Word /\ b.word \in Word
    BY DEF Name
  <2>2. a.word = b.word
    BY <1>2, <2>1, PlacesAreDistinct
  <2> QED
    BY <2>1, <2>2 DEF Name
<1>3. \A a, b \in S : BookBefore(a, b) <=> R(a) < R(b) \/ (R(a) = R(b) /\ P(a) < P(b))
  BY DEF BookBefore
<1> HIDE DEF R, P
<1> DEFINE before == {p \in S \X S : BookBefore(p[1], p[2])}
<1>4. \A a, b \in S : <<a, b>> \in before <=> R(a) < R(b) \/ (R(a) = R(b) /\ P(a) < P(b))
  BY <1>3
<1> HIDE DEF before
<1>5. \A x \in S : <<x, x>> \notin before
  BY <1>1, <1>4
<1>6. ASSUME NEW x \in S, NEW y \in S, NEW z \in S, <<x, y>> \in before, <<y, z>> \in before
      PROVE  <<x, z>> \in before
  BY <1>1, <1>4, <1>6
<1>7. ASSUME NEW x \in S, NEW y \in S, x # y PROVE <<x, y>> \in before \/ <<y, x>> \in before
  BY <1>1, <1>2, <1>4, <1>7
<1>8. StrictlyOrders(before, S)
  BY <1>5, <1>6, <1>7 DEF StrictlyOrders
<1> QED
  BY <1>8 DEF before

\* The sidebar compares as the walk does.
LEMMA SidebarAgrees ==
  ASSUME NEW a \in DirEntry, NEW b \in DirEntry, EntryBefore(a, b)
  PROVE  SidebarBefore(a, b)
<1> DEFINE m == a.name.num
           n == b.name.num
           v == a.name.word
           w == b.name.word
<1>1. /\ m = NoNumber \/ m \in 0 .. AfterAll - 1
      /\ n = NoNumber \/ n \in 0 .. AfterAll - 1
      /\ NoNumber \notin 0 .. AfterAll - 1 /\ AfterAll \in Nat
  <2>1. a.name \in Name /\ b.name \in Name
    BY DEF DirEntry
  <2> QED
    BY <2>1, NumberOrNone
<1>2. Rank(a.name) = IF m = NoNumber /\ v = "index" THEN -1 ELSE IF m = NoNumber THEN AfterAll ELSE m
  BY DEF Rank
<1>3. Rank(b.name) = IF n = NoNumber /\ w = "index" THEN -1 ELSE IF n = NoNumber THEN AfterAll ELSE n
  BY DEF Rank
<1>4. \/ Rank(a.name) < Rank(b.name)
      \/ Rank(a.name) = Rank(b.name) /\ Place(v, a.dir) < Place(w, b.dir)
  BY DEF EntryBefore
<1> DEFINE F == v = "index" /\ m = NoNumber
           G == w = "index" /\ n = NoNumber
<1>5. SidebarBefore(a, b) <=>
        \/ F /\ ~ G
        \/ m # NoNumber /\ n = NoNumber /\ ~ G
        \/ m # NoNumber /\ n # NoNumber /\ m < n
        \/ (F <=> G) /\ m = n /\ Place(v, a.dir) < Place(w, b.dir)
  BY DEF SidebarBefore
<1> HIDE DEF m, n, v, w
<1>6. CASE F
  BY <1>1, <1>2, <1>3, <1>4, <1>5, <1>6
<1>7. CASE m = NoNumber /\ ~ F
  BY <1>1, <1>2, <1>3, <1>4, <1>5, <1>7
<1>8. CASE m # NoNumber
  BY <1>1, <1>2, <1>3, <1>4, <1>5, <1>8
<1> QED
  BY <1>6, <1>7, <1>8
-------------------------------------------------------------------------------
(***************************************************************************)
(* The walk.                                                               *)
(***************************************************************************)

\* What is assumed of the files of a corpus.
IsCorpus(files) ==
  /\ files \subseteq File /\ IsFiniteSet(files)
  /\ \A f, g \in files : f.md /\ g.md /\ f.path = g.path => f = g
  /\ \A f \in files : f.path # <<>> /\ f.path[1].num = NoNumber

\* What the walk visits, and its name and kind at a depth.
Visit == [path : Seq(Name) \ {<<>>}, dir : BOOLEAN]
Level(x, k) == [name |-> x.path[k], dir |-> k < Len(x.path) \/ x.dir]

\* Where two paths part, the sidebar has one first.
PartsBefore(x, y, k) ==
  /\ k \in 1 .. Len(x.path) /\ k \in 1 .. Len(y.path)
  /\ \A m \in 1 .. k - 1 : Level(x, m) = Level(y, m)
  /\ Level(x, k) # Level(y, k)
  /\ EntryBefore(Level(x, k), Level(y, k))

\* In one book.
ComesBefore(x, y) == x.path[1] # y.path[1] \/ \E k \in Nat : PartsBefore(x, y, k)

LEMMA PathsAgree ==
  ASSUME NEW p \in Seq(Name), NEW q \in Seq(Name), Len(p) = Len(q), \A k \in 1 .. Len(p) : p[k] = q[k]
  PROVE  p = q
OBVIOUS

LEMMA PathsGrow ==
  ASSUME NEW p \in Seq(Name), NEW name \in Name, NEW q, q = Append(p, name)
  PROVE  /\ q \in Seq(Name) /\ Len(q) = Len(p) + 1 /\ q # <<>> /\ DOMAIN q = 1 .. Len(p) + 1
         /\ \A k \in 1 .. Len(p) : q[k] = p[k]
         /\ q[Len(p) + 1] = name
OBVIOUS

LEMMA VisitIs ==
  ASSUME NEW p \in Seq(Name), p # <<>>, NEW d \in BOOLEAN, NEW x, x = [path |-> p, dir |-> d]
  PROVE  x \in Visit /\ x.path = p /\ x.dir = d
BY DEF Visit

\* What stands in a directory of content parts from everything where the directory does.
LEMMA ChildParts ==
  ASSUME NEW x \in Visit, x.dir, NEW name \in Name, NEW d \in BOOLEAN, NEW y \in Visit,
         NEW c, c = [path |-> Append(x.path, name), dir |-> d]
  PROVE  /\ c \in Visit
         /\ ComesBefore(y, x) => ComesBefore(y, c)
         /\ ComesBefore(x, y) => ComesBefore(c, y)
<1>1. /\ x.path \in Seq(Name) /\ x.path # <<>> /\ y.path \in Seq(Name) /\ y.path # <<>>
      /\ x.dir \in BOOLEAN /\ y.dir \in BOOLEAN
  BY DEF Visit
<1>2. /\ c.path \in Seq(Name) /\ Len(c.path) = Len(x.path) + 1
      /\ \A k \in 1 .. Len(x.path) : c.path[k] = x.path[k]
      /\ c.dir = d
  BY <1>1
<1>3. Len(x.path) \in Nat /\ Len(x.path) >= 1 /\ Len(y.path) \in Nat
  BY <1>1
<1>4. c \in Visit
  BY <1>1, <1>2, <1>3 DEF Visit
<1>5. \A k \in 1 .. Len(x.path) : Level(c, k) = Level(x, k)
  BY <1>1, <1>2, <1>3 DEF Level
<1>6. c.path[1] = x.path[1]
  BY <1>2, <1>3
<1>7. \A k \in 1 .. Len(x.path) : k \in Nat /\ k \in 1 .. Len(c.path) /\ \A m \in 1 .. k - 1 : m \in 1 .. Len(x.path)
  BY <1>2, <1>3
<1>8. ASSUME NEW k \in Nat, PartsBefore(y, x, k) PROVE PartsBefore(y, c, k)
  BY <1>5, <1>7, <1>8 DEF PartsBefore
<1>9. ASSUME NEW k \in Nat, PartsBefore(x, y, k) PROVE PartsBefore(c, y, k)
  BY <1>5, <1>7, <1>9 DEF PartsBefore
<1> QED
  BY <1>4, <1>6, <1>8, <1>9 DEF ComesBefore

\* Two of what stands in a directory part there.
LEMMA SiblingsPart ==
  ASSUME NEW x \in Visit, NEW a \in DirEntry, NEW b \in DirEntry, EntryBefore(a, b), a # b,
         NEW c, c = [path |-> Append(x.path, a.name), dir |-> a.dir],
         NEW e, e = [path |-> Append(x.path, b.name), dir |-> b.dir]
  PROVE  ComesBefore(c, e)
<1> DEFINE n == Len(x.path)
<1>1. x.path \in Seq(Name) /\ a.name \in Name /\ b.name \in Name /\ a.dir \in BOOLEAN /\ b.dir \in BOOLEAN
  BY DEF Visit, DirEntry
<1>2. n \in Nat /\ Len(c.path) = n + 1 /\ Len(e.path) = n + 1
  BY <1>1
<1>3. /\ \A k \in 1 .. n : c.path[k] = x.path[k] /\ e.path[k] = x.path[k]
      /\ c.path[n + 1] = a.name /\ e.path[n + 1] = b.name
  BY <1>1
<1> HIDE DEF n
<1>4. Level(c, n + 1) = a /\ Level(e, n + 1) = b
  <2>1. ~ n + 1 < n + 1
    BY <1>2
  <2>2. a = [name |-> a.name, dir |-> a.dir] /\ b = [name |-> b.name, dir |-> b.dir]
    BY DEF DirEntry
  <2>3. (n + 1 < n + 1 \/ a.dir) = a.dir /\ (n + 1 < n + 1 \/ b.dir) = b.dir
    BY <1>1, <2>1
  <2> QED
    BY <1>2, <1>3, <2>2, <2>3 DEF Level
<1>5. \A m \in 1 .. (n + 1) - 1 : Level(c, m) = Level(e, m)
  BY <1>2, <1>3 DEF Level
<1>6. n + 1 \in Nat /\ n + 1 \in 1 .. n + 1
  BY <1>2
<1>7. PartsBefore(c, e, n + 1)
  BY <1>2, <1>4, <1>5, <1>6, Zenon DEF PartsBefore
<1> QED
  BY <1>6, <1>7 DEF ComesBefore

\* The entries of a directory.
LEMMA EntriesOf ==
  ASSUME NEW files, IsCorpus(files), NEW dir \in Seq(Name)
  PROVE  Entries(files, dir) \in SUBSET DirEntry /\ IsFiniteSet(Entries(files, dir))
<1> DEFINE S == {f \in files : Below(dir, f.path)}
           E(file) == [name |-> file.path[Len(dir) + 1], dir |-> Len(file.path) > Len(dir) + 1]
           g == [file \in S |-> E(file)]
           T == Entries(files, dir)
<1>1. T = {E(file) : file \in S}
  BY DEF Entries
<1>2. IsFiniteSet(S)
  BY FS_Subset DEF IsCorpus
<1>3. ASSUME NEW file \in S PROVE E(file) \in DirEntry
  <2>1. file.path \in Seq(Name) /\ Len(dir) < Len(file.path) /\ Len(dir) \in Nat
    BY DEF IsCorpus, File, Below
  <2>2. file.path[Len(dir) + 1] \in Name
    BY <2>1
  <2> QED
    BY <2>2 DEF DirEntry
<1>4. g \in Surjection(S, T)
  BY <1>1 DEF Surjection
<1>5. IsFiniteSet(T)
  BY <1>2, <1>4, FS_Surjection
<1> QED
  BY <1>1, <1>3, <1>5
InsideSorted(files, dir) ==
  \E n \in Nat : \E s \in [1 .. n -> Entries(files, dir)] :
    /\ Inside(files, dir) = [i \in 1 .. n |-> [path |-> Append(dir, s[i].name), dir |-> s[i].dir]]
    /\ \A e \in Entries(files, dir) : \E i \in 1 .. n : s[i] = e
    /\ \A i, j \in 1 .. n : i < j => EntryBefore(s[i], s[j]) /\ s[i] # s[j]

LEMMA InsideSorts ==
  ASSUME NEW files, IsCorpus(files), NEW dir \in Seq(Name)
  PROVE  InsideSorted(files, dir)
<1> DEFINE S == Entries(files, dir)
           before == {p \in S \X S : EntryBefore(p[1], p[2])}
           s == Sorted(S, before)
           n == Cardinality(S)
<1>1. StrictlyOrders(before, S)
  BY EntriesOf, EntriesAreOrdered
<1>2. Inside(files, dir) = [i \in DOMAIN s |-> [path |-> Append(dir, s[i].name), dir |-> s[i].dir]]
  BY DEF Inside
<1>3. \A a, b : <<a, b>> \in before => EntryBefore(a, b)
  OBVIOUS
<1>4. IsFiniteSet(S)
  BY EntriesOf
<1> HIDE DEF before, s, S
<1>5. Arranges(s, S, before)
  BY <1>1, <1>4, SortedArranges DEF s
<1>6. n \in Nat /\ s \in [1 .. n -> S] /\ \A e \in S : \E i \in 1 .. n : s[i] = e
  BY <1>5 DEF Arranges
<1>7. ASSUME NEW i \in 1 .. n, NEW j \in 1 .. n, i < j PROVE EntryBefore(s[i], s[j]) /\ s[i] # s[j]
  <2>1. <<s[i], s[j]>> \in before /\ s[i] \in S
    BY <1>5, <1>7 DEF Arranges
  <2> QED
    BY <1>1, <1>3, <2>1 DEF StrictlyOrders
<1>8. Inside(files, dir) = [i \in 1 .. n |-> [path |-> Append(dir, s[i].name), dir |-> s[i].dir]]
  BY <1>2, <1>6
<1> QED
  BY <1>6, <1>7, <1>8 DEF S, InsideSorted

\* A file that is, or may be, found by visiting.
Leads(x, file) == IF x.dir THEN Below(x.path, file.path) ELSE file.path = x.path

\* What is found below a directory of content, and where.
Continues(seq, x, files) ==
  /\ seq \in Seq(Visit)
  /\ \A i \in 1 .. Len(seq) : Len(seq[i].path) = Len(x.path) + 1
                              /\ \A k \in 1 .. Len(x.path) : seq[i].path[k] = x.path[k]
  /\ \A i, j \in 1 .. Len(seq) : i < j => ComesBefore(seq[i], seq[j])
  /\ \A y \in Visit : ComesBefore(y, x) => \A i \in 1 .. Len(seq) : ComesBefore(y, seq[i])
  /\ \A y \in Visit : ComesBefore(x, y) => \A i \in 1 .. Len(seq) : ComesBefore(seq[i], y)
  /\ \A file \in files : Leads(x, file) => \E i \in 1 .. Len(seq) : Leads(seq[i], file)

LEMMA InsideContinues ==
  ASSUME NEW files, IsCorpus(files), NEW x \in Visit, x.dir
  PROVE  Continues(Inside(files, x.path), x, files)
<1>1. x.path \in Seq(Name) /\ x.path # <<>>
  BY DEF Visit
<1> DEFINE I == Inside(files, x.path)
<1>2. PICK n \in Nat : \E s \in [1 .. n -> Entries(files, x.path)] :
           /\ I = [i \in 1 .. n |-> [path |-> Append(x.path, s[i].name), dir |-> s[i].dir]]
           /\ \A e \in Entries(files, x.path) : \E i \in 1 .. n : s[i] = e
           /\ \A i, j \in 1 .. n : i < j => EntryBefore(s[i], s[j]) /\ s[i] # s[j]
  <2>1. InsideSorted(files, x.path)
    BY <1>1, InsideSorts
  <2> QED
    BY <2>1 DEF InsideSorted
<1>3. PICK s \in [1 .. n -> Entries(files, x.path)] :
           /\ I = [i \in 1 .. n |-> [path |-> Append(x.path, s[i].name), dir |-> s[i].dir]]
           /\ \A e \in Entries(files, x.path) : \E i \in 1 .. n : s[i] = e
           /\ \A i, j \in 1 .. n : i < j => EntryBefore(s[i], s[j]) /\ s[i] # s[j]
  BY <1>2
<1> HIDE DEF I
<1>4. ASSUME NEW i \in 1 .. n
      PROVE  /\ I[i] = [path |-> Append(x.path, s[i].name), dir |-> s[i].dir]
             /\ s[i] \in DirEntry /\ s[i].name \in Name /\ s[i].dir \in BOOLEAN
             /\ I[i] \in Visit /\ I[i].path = Append(x.path, s[i].name) /\ I[i].dir = s[i].dir
  <2>1. I[i] = [path |-> Append(x.path, s[i].name), dir |-> s[i].dir]
    BY <1>3
  <2>2. s[i] \in DirEntry
    BY <1>1, EntriesOf
  <2>3. s[i].name \in Name /\ s[i].dir \in BOOLEAN
    BY <2>2 DEF DirEntry
  <2>4. Append(x.path, s[i].name) \in Seq(Name) /\ Append(x.path, s[i].name) # <<>>
    BY <1>1, <2>3, PathsGrow
  <2>5. I[i] \in Visit /\ I[i].path = Append(x.path, s[i].name) /\ I[i].dir = s[i].dir
    <3>1. PICK p, d, y : p = Append(x.path, s[i].name) /\ d = s[i].dir /\ y = I[i]
      OBVIOUS
    <3>2. p \in Seq(Name) /\ p # <<>> /\ d \in BOOLEAN /\ y = [path |-> p, dir |-> d]
      BY <2>1, <2>3, <2>4, <3>1
    <3>3. y \in Visit /\ y.path = p /\ y.dir = d
      BY <3>2, VisitIs
    <3> QED
      BY <3>1, <3>3
  <2> QED
    BY <2>1, <2>2, <2>3, <2>5
<1>5. I \in Seq(Visit) /\ Len(I) = n
  <2>1. DOMAIN I = 1 .. n /\ I = [i \in 1 .. n |-> I[i]]
    BY <1>3
  <2>2. I \in [1 .. n -> Visit]
    BY <1>4, <2>1
  <2> QED
    BY <2>1, <2>2
<1>6. ASSUME NEW i \in 1 .. n
      PROVE  /\ I[i].path \in Seq(Name) /\ Len(I[i].path) = Len(x.path) + 1
             /\ DOMAIN I[i].path = 1 .. Len(x.path) + 1
             /\ \A k \in 1 .. Len(x.path) : I[i].path[k] = x.path[k]
             /\ I[i].path[Len(x.path) + 1] = s[i].name
  <2>1. I[i].path = Append(x.path, s[i].name) /\ s[i].name \in Name
    BY <1>4
  <2> QED
    BY <1>1, <2>1, PathsGrow
<1>7. ASSUME NEW i \in 1 .. n, NEW j \in 1 .. n, i < j PROVE ComesBefore(I[i], I[j])
  <2>1. EntryBefore(s[i], s[j]) /\ s[i] # s[j]
    BY <1>3, <1>7
  <2> QED
    BY <1>4, <2>1, SiblingsPart
<1>8. ASSUME NEW y \in Visit, NEW i \in 1 .. n
      PROVE  /\ ComesBefore(y, x) => ComesBefore(y, I[i])
             /\ ComesBefore(x, y) => ComesBefore(I[i], y)
  <2>1. PICK name \in Name, d \in BOOLEAN : name = s[i].name /\ d = s[i].dir
    BY <1>4
  <2>2. I[i] = [path |-> Append(x.path, name), dir |-> d]
    BY <1>4, <2>1
  <2> HIDE DEF I
  <2>3. PICK c : c = I[i]
    OBVIOUS
  <2>4. c = [path |-> Append(x.path, name), dir |-> d]
    BY <2>2, <2>3
  <2>5. (ComesBefore(y, x) => ComesBefore(y, c)) /\ (ComesBefore(x, y) => ComesBefore(c, y))
    BY <2>4, ChildParts
  <2> QED
    BY <2>3, <2>5
<1>9. ASSUME NEW file \in files, Leads(x, file) PROVE \E i \in 1 .. n : Leads(I[i], file)
  <2> DEFINE e == [name |-> file.path[Len(x.path) + 1], dir |-> Len(file.path) > Len(x.path) + 1]
  <2>1. Below(x.path, file.path)
    BY <1>9 DEF Leads
  <2>2. e \in Entries(files, x.path)
    BY <2>1 DEF Entries
  <2>3. PICK i \in 1 .. n : s[i] = e
    BY <1>3, <2>2
  <2>4. s[i].name = file.path[Len(x.path) + 1] /\ s[i].dir = (Len(file.path) > Len(x.path) + 1)
    BY <2>3
  <2>5. file.path \in Seq(Name) /\ Len(x.path) < Len(file.path) /\ \A k \in 1 .. Len(x.path) : file.path[k] = x.path[k]
    BY <1>1, <2>1 DEF IsCorpus, File, Below
  <2>6. I[i].dir = (Len(file.path) > Len(x.path) + 1)
    <3>1. I[i].dir = s[i].dir
      BY <1>4
    <3> QED
      BY <2>4, <3>1
  <2>7. \A k \in 1 .. Len(x.path) + 1 : I[i].path[k] = file.path[k]
    <3>1. Len(x.path) \in Nat
      BY <1>1
    <3>2. \A k \in 1 .. Len(x.path) + 1 : k \in 1 .. Len(x.path) \/ k = Len(x.path) + 1
      BY <3>1
    <3> QED
      BY <1>6, <2>4, <2>5, <3>2
  <2>8. Len(I[i].path) = Len(x.path) + 1 /\ I[i].path \in Seq(Name) /\ DOMAIN I[i].path = 1 .. Len(x.path) + 1
    BY <1>6
  <2>9. CASE Len(file.path) > Len(x.path) + 1
    BY <2>6, <2>7, <2>8, <2>9 DEF Leads, Below
  <2>10. CASE ~ Len(file.path) > Len(x.path) + 1
    <3>1. Len(file.path) = Len(x.path) + 1
      BY <1>1, <2>5, <2>10
    <3>2. file.path = I[i].path
      <4>1. PICK p, q : p = file.path /\ q = I[i].path
        OBVIOUS
      <4>2. p \in Seq(Name) /\ q \in Seq(Name) /\ Len(q) = Len(p) /\ \A k \in 1 .. Len(p) : q[k] = p[k]
        BY <2>5, <2>7, <2>8, <3>1, <4>1
      <4> QED
        BY <4>1, <4>2, PathsAgree
    <3> QED
      BY <2>6, <2>10, <3>2 DEF Leads
  <2> QED
    BY <2>9, <2>10
<1> QED
  BY <1>5, <1>6, <1>7, <1>8, <1>9 DEF Continues, I

\* The books.
BooksFirst(seq, files) ==
  /\ seq \in Seq(Visit)
  /\ \A i \in 1 .. Len(seq) : seq[i].dir /\ Len(seq[i].path) = 1 /\ IncludesAsContent(seq[i].path[1])
  /\ \A i, j \in 1 .. Len(seq) : i < j => seq[i].path[1] # seq[j].path[1]
  /\ \A file \in files : IsChapter(file) => \E i \in 1 .. Len(seq) : Leads(seq[i], file)

LEMMA BooksCoverCorpus ==
  ASSUME NEW files, IsCorpus(files)
  PROVE  BooksFirst(Books(files), files)
<1> DEFINE E == {e \in Entries(files, <<>>) : e.dir /\ IncludesAsContent(e.name)}
           S == {e.name : e \in E}
           before == {p \in S \X S : BookBefore(p[1], p[2])}
           s == Sorted(S, before)
           n == Cardinality(S)
           B == Books(files)
           g == [e \in E |-> e.name]
<1>1. <<>> \in Seq(Name) /\ Len(<<>>) = 0
  OBVIOUS
<1>2. Entries(files, <<>>) \in SUBSET DirEntry /\ IsFiniteSet(Entries(files, <<>>))
  BY <1>1, EntriesOf
<1>3. S \in SUBSET {name \in Name : name.num = NoNumber}
  <2> SUFFICES ASSUME NEW e \in Entries(files, <<>>) PROVE e.name \in Name /\ e.name.num = NoNumber
    OBVIOUS
  <2>1. PICK file \in files : e = [name |-> file.path[Len(<<>>) + 1], dir |-> Len(file.path) > Len(<<>>) + 1]
    BY DEF Entries
  <2>2. e.name = file.path[1]
    BY <1>1, <2>1
  <2> QED
    BY <1>2, <2>2 DEF IsCorpus, DirEntry
<1>4. IsFiniteSet(S)
  <2>1. IsFiniteSet(E)
    BY <1>2, FS_Subset
  <2>2. g \in Surjection(E, S)
    BY DEF Surjection
  <2> QED
    BY <2>1, <2>2, FS_Surjection
<1>5. StrictlyOrders(before, S)
  BY <1>3, BooksAreOrdered
<1>6. B = [i \in DOMAIN s |-> [path |-> <<s[i]>>, dir |-> TRUE]]
  BY DEF Books
<1>7. \A name \in S : name \in Name /\ IncludesAsContent(name)
  BY <1>3
<1>8. \A file \in files : IsChapter(file) => file.path[1] \in S /\ file.path \in Seq(Name) /\ Len(file.path) > 1
  <2> SUFFICES ASSUME NEW file \in files, IsChapter(file)
               PROVE  file.path[1] \in S /\ file.path \in Seq(Name) /\ Len(file.path) > 1
    OBVIOUS
  <2>1. file.path \in Seq(Name) /\ Len(file.path) > 1 /\ IncludesAsContent(file.path[1])
    <3>1. file.path \in Seq(Name)
      BY DEF IsCorpus, File
    <3>2. Len(file.path) > 1 /\ \A i \in 1 .. Len(file.path) - 1 : IncludesAsContent(file.path[i])
      BY DEF IsChapter
    <3>3. 1 \in 1 .. Len(file.path) - 1
      BY <3>1, <3>2
    <3> QED
      BY <3>1, <3>2, <3>3
  <2> DEFINE e == [name |-> file.path[Len(<<>>) + 1], dir |-> Len(file.path) > Len(<<>>) + 1]
  <2>2. Below(<<>>, file.path)
    BY <2>1 DEF Below
  <2>3. e \in Entries(files, <<>>)
    BY <2>2 DEF Entries
  <2>4. e.name = file.path[1] /\ e.dir
    <3>1. Len(<<>>) + 1 = 1
      BY <1>1
    <3> QED
      BY <2>1, <3>1
  <2>5. e \in E
    BY <2>1, <2>3, <2>4
  <2> HIDE DEF e, E
  <2> QED
    BY <2>1, <2>4, <2>5
<1> HIDE DEF E, S, before, s, B
<1>9. Arranges(s, S, before)
  BY <1>4, <1>5, SortedArranges DEF s
<1>10. n \in Nat /\ s \in [1 .. n -> S] /\ \A e \in S : \E i \in 1 .. n : s[i] = e
  BY <1>9 DEF Arranges
<1>11. ASSUME NEW i \in 1 .. n, NEW j \in 1 .. n, i < j PROVE s[i] # s[j]
  <2>1. <<s[i], s[j]>> \in before /\ s[i] \in S
    BY <1>9, <1>11 DEF Arranges
  <2> QED
    BY <1>5, <2>1 DEF StrictlyOrders
<1>12. DOMAIN B = 1 .. n /\ \A i \in 1 .. n : B[i] = [path |-> <<s[i]>>, dir |-> TRUE] /\ s[i] \in S
  BY <1>6, <1>10
<1>13. ASSUME NEW i \in 1 .. n
       PROVE  B[i] \in Visit /\ B[i].dir /\ Len(B[i].path) = 1 /\ B[i].path[1] = s[i] /\ IncludesAsContent(s[i])
  <2>1. s[i] \in Name /\ IncludesAsContent(s[i]) /\ B[i].path = <<s[i]>> /\ B[i].dir = TRUE
    BY <1>7, <1>12
  <2>2. <<s[i]>> \in Seq(Name) /\ <<s[i]>> # <<>> /\ Len(<<s[i]>>) = 1 /\ <<s[i]>>[1] = s[i]
    BY <2>1
  <2>3. [path |-> <<s[i]>>, dir |-> TRUE] \in Visit
    BY <2>2, VisitIs
  <2>4. B[i] \in Visit
    BY <1>12, <2>3
  <2> QED
    BY <2>1, <2>2, <2>4
<1>14. B \in Seq(Visit) /\ Len(B) = n
  <2>1. B \in [1 .. n -> Visit]
    BY <1>6, <1>10, <1>13
  <2> QED
    BY <1>10, <1>12, <2>1
<1>15. ASSUME NEW file \in files, IsChapter(file) PROVE \E i \in 1 .. n : Leads(B[i], file)
  <2>1. PICK i \in 1 .. n : s[i] = file.path[1]
    BY <1>8, <1>10, <1>15
  <2>2. Below(B[i].path, file.path)
    <3>1. Len(file.path) > 1 /\ file.path \in Seq(Name)
      BY <1>8, <1>15
    <3>2. B[i].path = <<s[i]>> /\ Len(B[i].path) = 1
      BY <1>12, <1>13
    <3> QED
      BY <2>1, <3>1, <3>2 DEF Below
  <2> QED
    BY <1>13, <2>2 DEF Leads
<1> QED
  BY <1>11, <1>13, <1>14, <1>15 DEF BooksFirst, B
\* The directories above what is visited are content; of the content directory itself
\* only the books are visited.
Reached(x) ==
  /\ \A k \in 1 .. Len(x.path) - 1 : IncludesAsContent(x.path[k])
  /\ Len(x.path) = 1 => x.dir /\ IncludesAsContent(x.path[1])

ChaptersOf(files) == {MetaOf(f) : f \in {f \in files : IsChapter(f)}}

LeafOf(meta) == [path |-> meta.file.path, dir |-> FALSE]

\* What holds all along a walk: all that is collected and all that is still to be visited
\* is in the order of the sidebar, and leads to every chapter.
WalkOK(files, todo, found) ==
  /\ todo \in Seq(Visit) /\ found \in Seq(ChaptersOf(files))
  /\ \A i \in 1 .. Len(todo) : Reached(todo[i])
  /\ \A i, j \in 1 .. Len(found) : i < j => ComesBefore(LeafOf(found[i]), LeafOf(found[j]))
  /\ \A i \in 1 .. Len(found), j \in 1 .. Len(todo) : ComesBefore(LeafOf(found[i]), todo[j])
  /\ \A i, j \in 1 .. Len(todo) : i < j => ComesBefore(todo[i], todo[j])
  /\ \A file \in files : IsChapter(file) =>
       \/ \E i \in 1 .. Len(found) : found[i].file = file
       \/ \E i \in 1 .. Len(todo) : Leads(todo[i], file)

\* A chapter has a slug with something in it.
LEMMA ChapterHasSlug ==
  ASSUME NEW path \in Seq(Name), Len(path) > 1
  PROVE  ChapterSlug(Tail(path)) # <<>> <=> \E i \in 2 .. Len(path) : Slugified[path[i].word] # ""
<1> DEFINE t == Tail(path)
           slugs == [i \in DOMAIN t |-> Slugified[t[i].word]]
           places == {i \in DOMAIN t : slugs[i] # ""}
<1>1. PICK n \in Nat : n = Len(path) - 1
  OBVIOUS
<1>2. Len(path) = n + 1 /\ DOMAIN t = 1 .. n /\ \A i \in 1 .. n : t[i] = path[i + 1]
  BY <1>1
<1>3. ChapterSlug(t) = Chosen(slugs, places)
  BY DEF ChapterSlug
<1> HIDE DEF t
<1>4. /\ \A i \in 1 .. n : slugs[i] = Slugified[path[i + 1].word]
      /\ \A i : i \in places <=> i \in 1 .. n /\ slugs[i] # ""
  BY <1>2
<1> HIDE DEF slugs, places
<1>5. places \in SUBSET (1 .. n) /\ IsFiniteSet(1 .. n)
  <2>1. places \in SUBSET (1 .. n)
    BY <1>4, Zenon
  <2>2. IsFiniteSet(1 .. n)
    BY FS_Interval
  <2> QED
    BY <2>1, <2>2
<1>6. (\E i \in 2 .. Len(path) : Slugified[path[i].word] # "") <=> places # {}
  <2>1. ASSUME NEW i \in 2 .. Len(path), Slugified[path[i].word] # "" PROVE places # {}
    <3>1. PICK j \in 1 .. n : i = j + 1
      <4>1. i - 1 \in 1 .. n /\ i = (i - 1) + 1
        BY <1>2
      <4> QED
        BY <4>1
    <3>2. j \in places
      BY <1>4, <2>1, <3>1
    <3> QED
      BY <3>2
  <2>2. ASSUME NEW i \in places PROVE \E k \in 2 .. Len(path) : Slugified[path[k].word] # ""
    <3>1. i \in 1 .. n /\ slugs[i] # "" /\ slugs[i] = Slugified[path[i + 1].word]
      BY <1>4
    <3>2. Len(path) = n + 1 /\ i \in 1 .. n
      BY <1>2, <3>1
    <3>3. i + 1 \in 2 .. Len(path)
      BY <3>2
    <3> QED
      BY <3>1, <3>3
  <2> QED
    BY <2>1, <2>2
<1>10. PICK T : T = {slugs[p] : p \in places}
  OBVIOUS
<1>11. \A p \in places : slugs[p] \in T
  BY <1>10
<1>12. Chosen(slugs, places) \in Seq(T) /\ Len(Chosen(slugs, places)) = Cardinality(places)
  <2>1. Takes(Chosen(slugs, places), slugs, places, T)
    BY <1>1, <1>5, <1>11, ChosenIs
  <2> QED
    BY <2>1 DEF Takes
<1>7. IsFiniteSet(places)
  BY <1>5, FS_Subset
<1>8. Cardinality(places) = 0 <=> places = {}
  BY <1>7, FS_EmptySet
<1>9. Chosen(slugs, places) = <<>> <=> Cardinality(places) = 0
  BY <1>12
<1> QED
  BY <1>3, <1>6, <1>8, <1>9 DEF t

LEMMA WalkStarts ==
  ASSUME NEW files, IsCorpus(files)
  PROVE  WalkOK(files, Books(files), <<>>)
<1> DEFINE B == Books(files)
<1>1. BooksFirst(B, files)
  BY BooksCoverCorpus
<1> HIDE DEF B
<1>2. B \in Seq(Visit) /\ <<>> \in Seq(ChaptersOf(files)) /\ Len(<<>>) = 0 /\ 1 .. 0 = {}
  BY <1>1 DEF BooksFirst
<1>3. \A i \in 1 .. Len(B) : Reached(B[i])
  BY <1>1 DEF BooksFirst, Reached
<1>4. \A i, j \in 1 .. Len(B) : i < j => ComesBefore(B[i], B[j])
  BY <1>1 DEF BooksFirst, ComesBefore
<1>5. \A file \in files : IsChapter(file) => \E i \in 1 .. Len(B) : Leads(B[i], file)
  BY <1>1 DEF BooksFirst
<1> QED
  BY <1>2, <1>3, <1>4, <1>5 DEF WalkOK, B

LEMMA TailIs ==
  ASSUME NEW T, NEW s \in Seq(T), s # <<>>
  PROVE  /\ Head(s) = s[1] /\ 1 \in 1 .. Len(s) /\ s[1] \in T
         /\ Tail(s) \in Seq(T) /\ Len(s) \in Nat /\ Len(Tail(s)) = Len(s) - 1
         /\ \A i \in 1 .. Len(Tail(s)) : Tail(s)[i] = s[i + 1] /\ i + 1 \in 1 .. Len(s) /\ 1 < i + 1
         /\ \A i \in 1 .. Len(s) : i = 1 \/ \E j \in 1 .. Len(Tail(s)) : i = j + 1
<1>1. /\ Head(s) = s[1] /\ 1 \in 1 .. Len(s) /\ s[1] \in T
      /\ Tail(s) \in Seq(T) /\ Len(s) \in Nat /\ Len(Tail(s)) = Len(s) - 1
  OBVIOUS
<1>2. \A i \in 1 .. Len(Tail(s)) : Tail(s)[i] = s[i + 1] /\ i + 1 \in 1 .. Len(s) /\ 1 < i + 1
  BY <1>1
<1>3. ASSUME NEW i \in 1 .. Len(s), i # 1 PROVE \E j \in 1 .. Len(Tail(s)) : i = j + 1
  <2>1. i - 1 \in 1 .. Len(Tail(s)) /\ i = (i - 1) + 1
    BY <1>1, <1>3
  <2> QED
    BY <2>1
<1> QED
  BY <1>1, <1>2, <1>3

\* The rest of the walk stands when what is next leads nowhere.
LEMMA WalkShrinks ==
  ASSUME NEW files, NEW todo, NEW found, WalkOK(files, todo, found), todo # <<>>,
         \A file \in files : IsChapter(file) /\ Leads(Head(todo), file) =>
           \E i \in 1 .. Len(found) : found[i].file = file
  PROVE  WalkOK(files, Tail(todo), found)
<1>1. todo \in Seq(Visit)
  BY DEF WalkOK
<1> DEFINE t == Tail(todo)
<1>2. /\ Head(todo) = todo[1] /\ t \in Seq(Visit)
      /\ \A i \in 1 .. Len(t) : t[i] = todo[i + 1] /\ i + 1 \in 1 .. Len(todo) /\ 1 < i + 1
      /\ \A i \in 1 .. Len(todo) : i = 1 \/ \E j \in 1 .. Len(t) : i = j + 1
  BY <1>1, TailIs
<1> HIDE DEF t
<1>3. /\ \A i \in 1 .. Len(t) : Reached(t[i])
      /\ \A i \in 1 .. Len(found), j \in 1 .. Len(t) : ComesBefore(LeafOf(found[i]), t[j])
  BY <1>2 DEF WalkOK
<1>4. ASSUME NEW i \in 1 .. Len(t), NEW j \in 1 .. Len(t), i < j PROVE ComesBefore(t[i], t[j])
  <2>1. i + 1 < j + 1
    BY <1>4
  <2> QED
    BY <1>2, <2>1 DEF WalkOK
<1>5. ASSUME NEW file \in files, IsChapter(file)
      PROVE  (\E i \in 1 .. Len(found) : found[i].file = file) \/ \E i \in 1 .. Len(t) : Leads(t[i], file)
  <2>1. CASE \E i \in 1 .. Len(found) : found[i].file = file
    BY <2>1
  <2>2. CASE \E i \in 1 .. Len(todo) : Leads(todo[i], file)
    <3>1. PICK i \in 1 .. Len(todo) : Leads(todo[i], file)
      BY <2>2
    <3>2. CASE i = 1
      BY <1>2, <1>5, <3>1, <3>2
    <3>3. CASE \E j \in 1 .. Len(t) : i = j + 1
      BY <1>2, <3>1, <3>3
    <3> QED
      BY <1>2, <3>2, <3>3
  <2> QED
    BY <1>5, <2>1, <2>2 DEF WalkOK
<1> QED
  BY <1>2, <1>3, <1>4, <1>5 DEF WalkOK, t
LEMMA ChapterLeaf ==
  ASSUME NEW files, IsCorpus(files), NEW meta \in ChaptersOf(files)
  PROVE  /\ meta.file \in files /\ IsChapter(meta.file) /\ meta = MetaOf(meta.file)
         /\ LeafOf(meta) \in Visit
<1>1. PICK f \in files : IsChapter(f) /\ meta = MetaOf(f)
  BY DEF ChaptersOf
<1>2. meta.file = f
  BY <1>1 DEF MetaOf
<1>3. f.path \in Seq(Name) /\ f.path # <<>>
  BY DEF IsCorpus, File
<1>4. [path |-> f.path, dir |-> FALSE] \in Visit
  BY <1>3, VisitIs
<1> QED
  BY <1>1, <1>2, <1>4 DEF LeafOf

LEMMA MoreThanOne == \A n \in Nat : n # 0 /\ n # 1 => n > 1
OBVIOUS

LEMMA WalkCollects ==
  ASSUME NEW files, IsCorpus(files), NEW todo, NEW found, WalkOK(files, todo, found), todo # <<>>,
         NEW x, x = Head(todo), ~ x.dir, ~ IsHidden(x.path[Len(x.path)]),
         NEW f \in ChapterAt(files, x.path)
  PROVE  WalkOK(files, Tail(todo), Append(found, MetaOf(f)))
<1>1. f \in files /\ f.path = x.path /\ f.md /\ ChapterSlug(Tail(x.path)) # <<>>
  BY DEF ChapterAt
<1>2. todo \in Seq(Visit) /\ found \in Seq(ChaptersOf(files))
  BY DEF WalkOK
<1>3. 1 \in 1 .. Len(todo) /\ x = todo[1] /\ x \in Visit
  BY <1>2, TailIs
<1>4. Reached(x)
  BY <1>3 DEF WalkOK
<1>5. x.path \in Seq(Name) /\ x.path # <<>> /\ x.dir \in BOOLEAN
  BY <1>3 DEF Visit
<1>6. IsChapter(f)
  <2>1. Len(x.path) > 1
    <3>1. Len(x.path) # 1
      BY <1>4, Zenon DEF Reached
    <3>2. \A p \in Seq(Name) : p # <<>> => Len(p) \in Nat /\ Len(p) # 0
      OBVIOUS
    <3>3. Len(x.path) \in Nat /\ Len(x.path) # 0
      BY <1>5, <3>2
    <3> QED
      BY <3>1, <3>3, MoreThanOne, Zenon
  <2>2. \E i \in 2 .. Len(x.path) : Slugified[x.path[i].word] # ""
    BY <1>1, <1>5, <2>1, ChapterHasSlug
  <2> QED
    BY <1>1, <1>4, <2>1, <2>2 DEF IsChapter, Reached
<1> DEFINE m == MetaOf(f)
           g == Append(found, m)
           n == Len(found)
<1>7. m \in ChaptersOf(files) /\ m.file = f
  BY <1>1, <1>6 DEF ChaptersOf, MetaOf
<1>8. LeafOf(m) = x
  <2>1. x = [path |-> x.path, dir |-> FALSE]
    <3>1. x.dir = FALSE
      BY <1>5
    <3> QED
      BY <1>3, <3>1 DEF Visit
  <2> QED
    BY <1>1, <1>7, <2>1 DEF LeafOf
<1> HIDE DEF m
<1>9. /\ g \in Seq(ChaptersOf(files)) /\ Len(g) = n + 1 /\ n \in Nat
      /\ \A i \in 1 .. n : g[i] = found[i] /\ i \in 1 .. n + 1
      /\ g[n + 1] = m /\ \A i \in 1 .. n + 1 : i \in 1 .. n \/ i = n + 1
  BY <1>2, <1>7
<1> DEFINE t == Tail(todo)
<1>10. /\ t \in Seq(Visit)
       /\ \A i \in 1 .. Len(t) : t[i] = todo[i + 1] /\ i + 1 \in 1 .. Len(todo) /\ 1 < i + 1
       /\ \A i \in 1 .. Len(todo) : i = 1 \/ \E j \in 1 .. Len(t) : i = j + 1
  BY <1>2, TailIs
<1> HIDE DEF g, t
<1>11. ASSUME NEW i \in 1 .. n + 1, NEW j \in 1 .. n + 1, i < j
       PROVE  ComesBefore(LeafOf(g[i]), LeafOf(g[j]))
  <2>1. i \in 1 .. n
    BY <1>9, <1>11
  <2>2. CASE j \in 1 .. n
    BY <1>9, <1>11, <2>1, <2>2 DEF WalkOK
  <2>3. CASE j = n + 1
    <3>1. ComesBefore(LeafOf(found[i]), todo[1])
      BY <1>3, <2>1 DEF WalkOK
    <3> QED
      BY <1>3, <1>8, <1>9, <2>1, <2>3, <3>1
  <2> QED
    BY <1>9, <2>2, <2>3
<1>12. ASSUME NEW i \in 1 .. n + 1, NEW j \in 1 .. Len(t) PROVE ComesBefore(LeafOf(g[i]), t[j])
  <2>1. CASE i \in 1 .. n
    BY <1>9, <1>10, <2>1 DEF WalkOK
  <2>2. CASE i = n + 1
    <3>1. ComesBefore(todo[1], todo[j + 1])
      BY <1>3, <1>10 DEF WalkOK
    <3> QED
      BY <1>3, <1>8, <1>9, <1>10, <2>2, <3>1
  <2> QED
    BY <1>9, <2>1, <2>2
<1>13. ASSUME NEW i \in 1 .. Len(t), NEW j \in 1 .. Len(t), i < j PROVE ComesBefore(t[i], t[j])
  <2>1. i + 1 < j + 1
    BY <1>13
  <2> QED
    BY <1>10, <2>1 DEF WalkOK
<1>14. \A i \in 1 .. Len(t) : Reached(t[i])
  BY <1>10 DEF WalkOK
<1>15. ASSUME NEW file \in files, IsChapter(file)
       PROVE  (\E i \in 1 .. n + 1 : g[i].file = file) \/ \E i \in 1 .. Len(t) : Leads(t[i], file)
  <2>1. CASE \E i \in 1 .. n : found[i].file = file
    BY <1>9, <2>1
  <2>2. CASE \E i \in 1 .. Len(todo) : Leads(todo[i], file)
    <3>1. PICK i \in 1 .. Len(todo) : Leads(todo[i], file)
      BY <2>2
    <3>2. CASE i = 1
      <4>1. file.path = x.path /\ file.md
        BY <1>3, <1>15, <3>1, <3>2 DEF Leads, IsChapter
      <4>2. file = f
        BY <1>1, <4>1 DEF IsCorpus
      <4>3. n + 1 \in 1 .. n + 1
        BY <1>9
      <4> QED
        BY <1>7, <1>9, <4>2, <4>3
    <3>3. CASE \E j \in 1 .. Len(t) : i = j + 1
      BY <1>10, <3>1, <3>3
    <3> QED
      BY <1>10, <3>2, <3>3
  <2> QED
    BY <1>15, <2>1, <2>2 DEF WalkOK
<1>16. WalkOK(files, t, g)
  BY <1>9, <1>10, <1>11, <1>12, <1>13, <1>14, <1>15 DEF WalkOK
<1> QED
  BY <1>16 DEF g, t, m

LEMMA Joined ==
  ASSUME NEW T, NEW s \in Seq(T), NEW t \in Seq(T), NEW c, c = s \o t
  PROVE  /\ c \in Seq(T) /\ Len(c) = Len(s) + Len(t) /\ Len(s) \in Nat /\ Len(t) \in Nat
         /\ \A i \in 1 .. Len(s) : i \in 1 .. Len(c) /\ c[i] = s[i]
         /\ \A j \in 1 .. Len(t) : j + Len(s) \in 1 .. Len(c) /\ c[j + Len(s)] = t[j]
         /\ \A i \in 1 .. Len(c) : i \in 1 .. Len(s) \/ \E j \in 1 .. Len(t) : i = j + Len(s)
<1>1. c \in Seq(T) /\ Len(c) = Len(s) + Len(t) /\ Len(s) \in Nat /\ Len(t) \in Nat
  OBVIOUS
<1>2. \A i \in 1 .. Len(s) : i \in 1 .. Len(c) /\ c[i] = s[i]
  OBVIOUS
<1>3. \A j \in 1 .. Len(t) : j + Len(s) \in 1 .. Len(c) /\ c[j + Len(s)] = t[j]
  OBVIOUS
<1>4. ASSUME NEW i \in 1 .. Len(c), i \notin 1 .. Len(s) PROVE \E j \in 1 .. Len(t) : i = j + Len(s)
  <2>1. i - Len(s) \in 1 .. Len(t) /\ i = (i - Len(s)) + Len(s)
    BY <1>1, <1>4
  <2> QED
    BY <2>1
<1> QED
  BY <1>1, <1>2, <1>3, <1>4

LEMMA WalkEnters ==
  ASSUME NEW files, IsCorpus(files), NEW todo, NEW found, WalkOK(files, todo, found), todo # <<>>,
         NEW x, x = Head(todo), x.dir, IncludesAsContent(x.path[Len(x.path)])
  PROVE  WalkOK(files, Inside(files, x.path) \o Tail(todo), found)
<1>1. todo \in Seq(Visit) /\ found \in Seq(ChaptersOf(files))
  BY DEF WalkOK
<1> DEFINE t == Tail(todo)
           s == Inside(files, x.path)
           c == s \o t
<1>2. 1 \in 1 .. Len(todo) /\ x = todo[1] /\ x \in Visit
  BY <1>1, TailIs
<1>3. Reached(x)
  BY <1>2 DEF WalkOK
<1>4. x.path \in Seq(Name) /\ x.path # <<>>
  BY <1>2 DEF Visit
<1>5. /\ t \in Seq(Visit)
      /\ \A i \in 1 .. Len(t) : t[i] = todo[i + 1] /\ i + 1 \in 1 .. Len(todo) /\ 1 < i + 1
      /\ \A i \in 1 .. Len(todo) : i = 1 \/ \E j \in 1 .. Len(t) : i = j + 1
  BY <1>1, TailIs
<1>6. Continues(s, x, files)
  BY <1>2, InsideContinues
<1> HIDE DEF s, t
<1>7. s \in Seq(Visit)
  BY <1>6 DEF Continues
<1>8. /\ c \in Seq(Visit) /\ Len(s) \in Nat
      /\ \A i \in 1 .. Len(s) : i \in 1 .. Len(c) /\ c[i] = s[i]
      /\ \A j \in 1 .. Len(t) : j + Len(s) \in 1 .. Len(c) /\ c[j + Len(s)] = t[j]
      /\ \A i \in 1 .. Len(c) : i \in 1 .. Len(s) \/ \E j \in 1 .. Len(t) : i = j + Len(s)
  <2> HIDE DEF c
  <2>1. t \in Seq(Visit) /\ s \in Seq(Visit) /\ c = s \o t
    BY <1>5, <1>7 DEF c
  <2> QED
    BY <2>1, Joined
<1> HIDE DEF c
<1>9. ASSUME NEW i \in 1 .. Len(s) PROVE Reached(s[i])
  <2>1. Len(s[i].path) = Len(x.path) + 1 /\ \A k \in 1 .. Len(x.path) : s[i].path[k] = x.path[k]
    BY <1>6 DEF Continues
  <2>2. Len(x.path) \in Nat /\ Len(x.path) >= 1
    BY <1>4
  <2>3. \A k \in 1 .. Len(x.path) : k \in 1 .. Len(x.path) - 1 \/ k = Len(x.path)
    BY <2>2
  <2>4. \A k \in 1 .. Len(x.path) : IncludesAsContent(s[i].path[k])
    BY <1>3, <2>1, <2>3 DEF Reached
  <2>5. Len(s[i].path) - 1 = Len(x.path) /\ Len(s[i].path) # 1
    BY <2>1, <2>2
  <2> QED
    BY <2>4, <2>5 DEF Reached
<1>10. ASSUME NEW i \in 1 .. Len(t) PROVE Reached(t[i])
  BY <1>5 DEF WalkOK
<1>11. ASSUME NEW i \in 1 .. Len(c) PROVE Reached(c[i])
  BY <1>8, <1>9, <1>10
<1>12. ASSUME NEW i \in 1 .. Len(found), NEW j \in 1 .. Len(c) PROVE ComesBefore(LeafOf(found[i]), c[j])
  <2>1. found[i] \in ChaptersOf(files)
    BY <1>1
  <2>2. LeafOf(found[i]) \in Visit
    BY <2>1, ChapterLeaf
  <2>3. CASE j \in 1 .. Len(s)
    <3>1. ComesBefore(LeafOf(found[i]), x)
      BY <1>2 DEF WalkOK
    <3> QED
      BY <1>6, <1>8, <2>2, <2>3, <3>1 DEF Continues
  <2>4. CASE \E k \in 1 .. Len(t) : j = k + Len(s)
    <3>1. PICK k \in 1 .. Len(t) : j = k + Len(s)
      BY <2>4
    <3>2. ComesBefore(LeafOf(found[i]), todo[k + 1])
      BY <1>5 DEF WalkOK
    <3> QED
      BY <1>5, <1>8, <3>1, <3>2
  <2> QED
    BY <1>8, <2>3, <2>4
<1>13. ASSUME NEW i \in 1 .. Len(c), NEW j \in 1 .. Len(c), i < j PROVE ComesBefore(c[i], c[j])
  <2>1. CASE i \in 1 .. Len(s) /\ j \in 1 .. Len(s)
    BY <1>6, <1>8, <1>13, <2>1 DEF Continues
  <2>2. ASSUME i \in 1 .. Len(s), NEW k \in 1 .. Len(t), j = k + Len(s) PROVE ComesBefore(c[i], c[j])
    <3>1. t[k] \in Visit /\ t[k] = todo[k + 1]
      BY <1>5
    <3>2. ComesBefore(x, t[k])
      BY <1>2, <1>5, <3>1 DEF WalkOK
    <3>3. ComesBefore(s[i], t[k])
      BY <1>6, <2>2, <3>1, <3>2 DEF Continues
    <3> QED
      BY <1>8, <2>2, <3>3
  <2>3. ASSUME NEW k \in 1 .. Len(t), i = k + Len(s), NEW l \in 1 .. Len(t), j = l + Len(s)
        PROVE  ComesBefore(c[i], c[j])
    <3>1. k + 1 < l + 1
      BY <1>8, <1>13, <2>3
    <3>2. ComesBefore(todo[k + 1], todo[l + 1])
      BY <1>5, <3>1 DEF WalkOK
    <3> QED
      BY <1>5, <1>8, <2>3, <3>2
  <2>4. ASSUME NEW k \in 1 .. Len(t), i = k + Len(s), j \in 1 .. Len(s) PROVE FALSE
    BY <1>8, <1>13, <2>4
  <2> QED
    BY <1>8, <2>1, <2>2, <2>3, <2>4
<1>14. ASSUME NEW file \in files, IsChapter(file)
       PROVE  (\E i \in 1 .. Len(found) : found[i].file = file) \/ \E i \in 1 .. Len(c) : Leads(c[i], file)
  <2>1. CASE \E i \in 1 .. Len(found) : found[i].file = file
    BY <2>1
  <2>2. CASE \E i \in 1 .. Len(todo) : Leads(todo[i], file)
    <3>1. PICK i \in 1 .. Len(todo) : Leads(todo[i], file)
      BY <2>2
    <3>2. CASE i = 1
      <4>1. PICK k \in 1 .. Len(s) : Leads(s[k], file)
        BY <1>2, <1>6, <3>1, <3>2 DEF Continues
      <4> QED
        BY <1>8, <4>1
    <3>3. CASE \E j \in 1 .. Len(t) : i = j + 1
      BY <1>5, <1>8, <3>1, <3>3
    <3> QED
      BY <1>5, <3>2, <3>3
  <2> QED
    BY <1>14, <2>1, <2>2 DEF WalkOK
<1>15. WalkOK(files, c, found)
  <2>1. \A i, j \in 1 .. Len(found) : i < j => ComesBefore(LeafOf(found[i]), LeafOf(found[j]))
    BY DEF WalkOK
  <2> QED
    BY <1>1, <1>8, <1>11, <1>12, <1>13, <1>14, <2>1 DEF WalkOK
<1> QED
  BY <1>15 DEF c, s, t
\* Where two paths part, the first is before the second in the sidebar.
InSidebarOrder(p, q) ==
  LET At(path, n) == [name |-> path[n], dir |-> n < Len(path)]
      k == CHOOSE n \in DOMAIN p \cap DOMAIN q :
             At(p, n) # At(q, n) /\ \A m \in 1 .. n - 1 : At(p, m) = At(q, m)
  IN  SidebarBefore(At(p, k), At(q, k))

LEMMA PartsInSidebar ==
  ASSUME NEW x \in Visit, NEW y \in Visit, ~ x.dir, ~ y.dir, NEW k0 \in Nat, PartsBefore(x, y, k0),
         NEW p, p = x.path, NEW q, q = y.path
  PROVE  InSidebarOrder(p, q)
<1> DEFINE At(path, n) == [name |-> path[n], dir |-> n < Len(path)]
           Part(n) == n \in DOMAIN p \cap DOMAIN q /\ At(p, n) # At(q, n) /\ \A m \in 1 .. n - 1 : At(p, m) = At(q, m)
           k == CHOOSE n \in DOMAIN p \cap DOMAIN q :
                  At(p, n) # At(q, n) /\ \A m \in 1 .. n - 1 : At(p, m) = At(q, m)
<1>1. p \in Seq(Name) /\ q \in Seq(Name) /\ x.dir \in BOOLEAN /\ y.dir \in BOOLEAN
  BY DEF Visit
<1>2. x.dir = FALSE /\ y.dir = FALSE
  BY <1>1
<1>3. DOMAIN p = 1 .. Len(p) /\ DOMAIN q = 1 .. Len(q) /\ Len(p) \in Nat /\ Len(q) \in Nat
  BY <1>1
<1>4. \A n \in Nat : Level(x, n) = At(p, n) /\ Level(y, n) = At(q, n)
  BY <1>2, <1>3 DEF Level
<1>5. /\ k0 \in DOMAIN p \cap DOMAIN q
      /\ \A m \in 1 .. k0 - 1 : Level(x, m) = Level(y, m)
      /\ Level(x, k0) # Level(y, k0) /\ EntryBefore(Level(x, k0), Level(y, k0))
  BY <1>3 DEF PartsBefore
<1>6. At(p, k0) \in DirEntry /\ At(q, k0) \in DirEntry
  <2>1. p[k0] \in Name /\ q[k0] \in Name /\ (k0 < Len(p)) \in BOOLEAN /\ (k0 < Len(q)) \in BOOLEAN
    BY <1>1, <1>3, <1>5
  <2> QED
    BY <2>1 DEF DirEntry
<1>7. \A m \in 1 .. k0 - 1 : m \in Nat
  OBVIOUS
<1> HIDE DEF At
<1>8. /\ At(p, k0) # At(q, k0) /\ EntryBefore(At(p, k0), At(q, k0))
      /\ \A m \in 1 .. k0 - 1 : At(p, m) = At(q, m)
  BY <1>4, <1>5, <1>7
<1>9. Part(k0)
  BY <1>5, <1>8
<1>10. ASSUME NEW n, Part(n) PROVE n = k0
  <2>1. n \in Nat /\ n >= 1 /\ k0 >= 1
    BY <1>3, <1>5, <1>10
  <2>2. ~ n < k0
    <3> SUFFICES ASSUME n < k0 PROVE FALSE
      OBVIOUS
    <3>1. n \in 1 .. k0 - 1
      BY <2>1
    <3> QED
      BY <1>8, <1>10, <3>1
  <2>3. ~ k0 < n
    <3> SUFFICES ASSUME k0 < n PROVE FALSE
      OBVIOUS
    <3>1. k0 \in 1 .. n - 1
      BY <2>1
    <3> QED
      BY <1>8, <1>10, <3>1
  <2> QED
    BY <2>1, <2>2, <2>3
<1>11. k = k0
  BY <1>9, <1>10
<1>12. SidebarBefore(At(p, k0), At(q, k0))
  BY <1>6, <1>8, SidebarAgrees
<1>13. SidebarBefore(At(p, k), At(q, k))
  BY <1>11, <1>12
<1> QED
  BY <1>13 DEF At, InSidebarOrder

LEMMA WalkFinishes ==
  ASSUME IsCorpus(content), index # NoIndex => WalkOK(content, <<>>, index.chapters)
  PROVE  SidebarOrder
<1> SUFFICES ASSUME index # NoIndex PROVE SidebarOrder
  BY DEF SidebarOrder
<1> DEFINE c == index.chapters
           n == Len(c)
<1>1. WalkOK(content, <<>>, c)
  OBVIOUS
<1>2. c \in Seq(ChaptersOf(content)) /\ n \in Nat /\ DOMAIN c = 1 .. n
  BY <1>1 DEF WalkOK
<1> HIDE DEF c
<1>3. ASSUME NEW i \in 1 .. n
      PROVE  /\ c[i].file \in content /\ IsChapter(c[i].file) /\ c[i] = MetaOf(c[i].file)
             /\ LeafOf(c[i]) \in Visit
  <2>1. c[i] \in ChaptersOf(content)
    BY <1>2
  <2> QED
    BY <2>1, ChapterLeaf
<1>4. ASSUME NEW file \in content, IsChapter(file) PROVE \E i \in 1 .. n : c[i].file = file
  <2>1. 1 .. Len(<<>>) = {}
    OBVIOUS
  <2> QED
    BY <1>1, <1>4, <2>1 DEF WalkOK
<1>5. ASSUME NEW i \in 1 .. n, NEW j \in 1 .. n, i < j PROVE ComesBefore(LeafOf(c[i]), LeafOf(c[j]))
  BY <1>1, <1>5 DEF WalkOK
<1>6. ASSUME NEW i \in 1 .. n
      PROVE  LeafOf(c[i]).path = c[i].file.path /\ ~ LeafOf(c[i]).dir /\ c[i].book = c[i].file.path[1]
  <2>1. c[i] = MetaOf(c[i].file)
    BY <1>3
  <2>2. MetaOf(c[i].file).book = c[i].file.path[1]
    BY DEF MetaOf
  <2> QED
    BY <2>1, <2>2 DEF LeafOf
<1>7. ASSUME NEW i \in 1 .. n, NEW j \in 1 .. n, i < j PROVE c[i].file # c[j].file
  <2> SUFFICES ASSUME c[i].file = c[j].file PROVE FALSE
    OBVIOUS
  <2>1. PICK x : x = LeafOf(c[i])
    OBVIOUS
  <2>2. LeafOf(c[j]) = x
    BY <2>1 DEF LeafOf
  <2>3. ComesBefore(x, x)
    BY <1>5, <1>7, <2>1, <2>2
  <2>4. PICK k \in Nat : PartsBefore(x, x, k)
    BY <2>3 DEF ComesBefore
  <2> QED
    BY <2>4 DEF PartsBefore
<1> DEFINE S == {f \in content : IsChapter(f)}
           g == [i \in 1 .. n |-> c[i].file]
<1>8. {c[i].file : i \in DOMAIN c} = S
  BY <1>2, <1>3, <1>4
<1>9. Cardinality(S) = n
  <2>1. \A i \in 1 .. n : g[i] = c[i].file /\ g[i] \in S
    BY <1>3
  <2>2. g \in [1 .. n -> S]
    BY <2>1
  <2>3. ASSUME NEW i \in 1 .. n, NEW j \in 1 .. n, g[i] = g[j] PROVE i = j
    <3>1. c[i].file = c[j].file
      BY <2>1, <2>3
    <3>2. ~ i < j /\ ~ j < i
      BY <1>7, <3>1
    <3> QED
      BY <3>2
  <2>4. \A s \in S : \E i \in 1 .. n : g[i] = s
    BY <1>4, <2>1
  <2> HIDE DEF g, S
  <2>5. g \in Surjection(1 .. n, S) /\ g \in Injection(1 .. n, S)
    BY <2>2, <2>3, <2>4 DEF Surjection, Injection, IsInjective
  <2>6. IsFiniteSet(1 .. n) /\ Cardinality(1 .. n) = n
    BY <1>2, FS_Interval
  <2>7. Cardinality(S) = Cardinality(1 .. n)
    BY <2>5, <2>6, FS_Surjection
  <2> QED
    BY <2>6, <2>7
<1>10. ASSUME NEW i \in 1 .. n, NEW j \in 1 .. n, i < j, c[i].book = c[j].book
       PROVE  InSidebarOrder(c[i].file.path, c[j].file.path)
  <2>1. ComesBefore(LeafOf(c[i]), LeafOf(c[j]))
    BY <1>5, <1>10
  <2>2. LeafOf(c[i]).path[1] = LeafOf(c[j]).path[1]
    BY <1>6, <1>10
  <2>3. PICK k0 \in Nat : PartsBefore(LeafOf(c[i]), LeafOf(c[j]), k0)
    BY <2>1, <2>2 DEF ComesBefore
  <2>4. PICK x, y : x = LeafOf(c[i]) /\ y = LeafOf(c[j])
    OBVIOUS
  <2>5. /\ x \in Visit /\ y \in Visit /\ ~ x.dir /\ ~ y.dir /\ PartsBefore(x, y, k0)
        /\ x.path = c[i].file.path /\ y.path = c[j].file.path
    BY <1>3, <1>6, <2>3, <2>4
  <2> QED
    BY <2>3, <2>5, PartsInSidebar
<1>11. \A i, j \in DOMAIN c : i < j /\ c[i].book = c[j].book => InSidebarOrder(c[i].file.path, c[j].file.path)
  BY <1>2, <1>10
<1>12. /\ {index.chapters[i].file : i \in DOMAIN index.chapters} = {f \in content : IsChapter(f)}
       /\ Cardinality({f \in content : IsChapter(f)}) = Len(index.chapters)
       /\ \A i, j \in DOMAIN index.chapters : i < j /\ index.chapters[i].book = index.chapters[j].book =>
            InSidebarOrder(index.chapters[i].file.path, index.chapters[j].file.path)
  BY <1>8, <1>9, <1>11 DEF c
<1> QED
  BY <1>12, Zenon DEF SidebarOrder, InSidebarOrder
-------------------------------------------------------------------------------
(***************************************************************************)
(* The inductive invariant of the server.                                  *)
(***************************************************************************)

Unauthorized == [error |-> "unauthorized"]

ServerInv ==
  /\ IsCorpus(content)
  /\ walk # NoWalk =>
       /\ index = NoIndex
       /\ walk = [todo |-> walk.todo, found |-> walk.found]
       /\ WalkOK(content, walk.todo, walk.found)
  /\ index # NoIndex => index = CorpusIndex(index.chapters) /\ WalkOK(content, <<>>, index.chapters)
  /\ said # NothingSaid =>
       /\ said.call \in Calls
       /\ said.answer = Unauthorized \/ (index # NoIndex /\ said.answer = AnswerTo(index, said.call))

LEMMA ServerInvStarts == ServerInit => ServerInv
<1> SUFFICES ASSUME ServerInit PROVE ServerInv
  OBVIOUS
<1>1. content \in Corpora /\ index = NoIndex /\ walk = NoWalk /\ said = NothingSaid
  BY DEF ServerInit
<1>2. IsCorpus(content)
  BY <1>1, ServerAssumption DEF IsCorpus
<1> QED
  BY <1>1, <1>2 DEF ServerInv

LEMMA ServerInvSteps == ServerInv /\ [ServerNext]_serverVars => ServerInv'
<1> SUFFICES ASSUME ServerInv, [ServerNext]_serverVars PROVE ServerInv'
  OBVIOUS
<1>1. /\ IsCorpus(content)
      /\ walk # NoWalk =>
           /\ index = NoIndex
           /\ walk = [todo |-> walk.todo, found |-> walk.found]
           /\ WalkOK(content, walk.todo, walk.found)
      /\ index # NoIndex => index = CorpusIndex(index.chapters) /\ WalkOK(content, <<>>, index.chapters)
      /\ said # NothingSaid =>
           /\ said.call \in Calls
           /\ said.answer = Unauthorized \/ (index # NoIndex /\ said.answer = AnswerTo(index, said.call))
  BY DEF ServerInv
<1>2. ASSUME NEW todo, NEW found, WalkOK(content, todo, found), walk # NoWalk, UNCHANGED <<content, index, said>>,
             walk' = [todo |-> todo, found |-> found]
      PROVE  ServerInv'
  <2>1. walk'.todo = todo /\ walk'.found = found
    BY <1>2
  <2>2. index = NoIndex /\ IsCorpus(content')
    BY <1>1, <1>2
  <2>3. WalkOK(content', walk'.todo, walk'.found)
    BY <1>2, <2>1
  <2> QED
    BY <1>1, <1>2, <2>2, <2>3 DEF ServerInv
<1>3. ASSUME StartWalk PROVE ServerInv'
  <2>1. walk' = [todo |-> Books(content), found |-> <<>>] /\ UNCHANGED <<content, index, said>> /\ index = NoIndex
    BY <1>3 DEF StartWalk
  <2>2. WalkOK(content, Books(content), <<>>)
    BY <1>1, WalkStarts
  <2>3. walk'.todo = Books(content) /\ walk'.found = <<>>
    BY <2>1
  <2>4. WalkOK(content', walk'.todo, walk'.found)
    BY <2>1, <2>2, <2>3
  <2> QED
    BY <1>1, <2>1, <2>4 DEF ServerInv
<1>4. ASSUME Visiting
      PROVE  /\ walk # NoWalk /\ walk.todo # <<>> /\ WalkOK(content, walk.todo, walk.found)
             /\ Head(walk.todo) \in Visit /\ Reached(Head(walk.todo))
  <2>1. walk # NoWalk /\ walk.todo # <<>> /\ WalkOK(content, walk.todo, walk.found)
    BY <1>1, <1>4 DEF Visiting
  <2>2. PICK todo : todo = walk.todo
    OBVIOUS
  <2>3. todo \in Seq(Visit) /\ todo # <<>> /\ \A i \in 1 .. Len(todo) : Reached(todo[i])
    BY <2>1, <2>2 DEF WalkOK
  <2>4. Head(todo) = todo[1] /\ 1 \in 1 .. Len(todo) /\ todo[1] \in Visit
    BY <2>3, TailIs
  <2> QED
    BY <2>1, <2>2, <2>3, <2>4
<1>5. ASSUME PassOver PROVE ServerInv'
  <2>1. PICK todo, found, x : todo = walk.todo /\ found = walk.found /\ x = Head(walk.todo)
    OBVIOUS
  <2>2. walk # NoWalk /\ todo # <<>> /\ WalkOK(content, todo, found) /\ x = Head(todo) /\ x \in Visit /\ Reached(x)
    BY <1>4, <1>5, <2>1 DEF PassOver
  <2>3. \/ IsHidden(x.path[Len(x.path)])
        \/ ~ x.dir /\ ChapterAt(content, x.path) = {}
        \/ x.dir /\ ~ IncludesAsContent(x.path[Len(x.path)])
    BY <1>5, <2>1 DEF PassOver
  <2>4. ASSUME NEW file \in content, IsChapter(file), Leads(x, file) PROVE FALSE
    <3>1. x.path \in Seq(Name) /\ x.path # <<>> /\ Len(x.path) \in Nat /\ Len(x.path) >= 1
      BY <2>2 DEF Visit
    <3>2. CASE x.dir
      <4>1. Below(x.path, file.path)
        BY <2>4, <3>2 DEF Leads
      <4>2. file.path \in Seq(Name)
        BY <1>1 DEF IsCorpus, File
      <4>3. Len(x.path) \in 1 .. Len(file.path) - 1 /\ file.path[Len(x.path)] = x.path[Len(x.path)]
        BY <3>1, <4>1, <4>2 DEF Below
      <4>4. IncludesAsContent(x.path[Len(x.path)])
        BY <2>4, <4>3 DEF IsChapter
      <4> QED
        BY <2>3, <3>2, <4>4 DEF IncludesAsContent
    <3>3. CASE ~ x.dir
      <4>1. file.path = x.path
        BY <2>4, <3>3 DEF Leads
      <4>2. file.md /\ Len(x.path) > 1 /\ ~ IsHidden(x.path[Len(x.path)])
            /\ \E i \in 2 .. Len(x.path) : Slugified[x.path[i].word] # ""
        BY <2>4, <4>1 DEF IsChapter
      <4>3. ChapterSlug(Tail(x.path)) # <<>>
        BY <3>1, <4>2, ChapterHasSlug
      <4>4. file \in ChapterAt(content, x.path)
        BY <4>1, <4>2, <4>3 DEF ChapterAt
      <4> QED
        BY <2>3, <3>3, <4>2, <4>4
    <3> QED
      BY <3>2, <3>3
  <2>5. WalkOK(content, Tail(todo), found)
    BY <2>2, <2>4, WalkShrinks
  <2>6. walk' = [walk EXCEPT !.todo = Tail(@)] /\ UNCHANGED <<content, index, said>>
    BY <1>5 DEF PassOver
  <2>7. walk' = [todo |-> Tail(todo), found |-> found]
    <3>1. walk = [todo |-> todo, found |-> found]
      BY <1>1, <2>1, <2>2
    <3> QED
      BY <2>6, <3>1
  <2> QED
    BY <1>2, <2>2, <2>5, <2>6, <2>7
<1>6. ASSUME CollectChapter PROVE ServerInv'
  <2>1. PICK todo, found, x : todo = walk.todo /\ found = walk.found /\ x = Head(walk.todo)
    OBVIOUS
  <2>2. walk # NoWalk /\ todo # <<>> /\ WalkOK(content, todo, found) /\ x = Head(todo)
    BY <1>4, <1>6, <2>1 DEF CollectChapter
  <2>3. /\ ~ IsHidden(x.path[Len(x.path)]) /\ ~ x.dir
        /\ \E file \in ChapterAt(content, x.path) :
             walk' = [todo |-> Tail(todo), found |-> Append(found, MetaOf(file))]
        /\ UNCHANGED <<content, index, said>>
    BY <1>6, <2>1 DEF CollectChapter
  <2>4. PICK file \in ChapterAt(content, x.path) :
          walk' = [todo |-> Tail(todo), found |-> Append(found, MetaOf(file))]
    BY <2>3
  <2>5. WalkOK(content, Tail(todo), Append(found, MetaOf(file)))
    BY <1>1, <2>2, <2>3, WalkCollects
  <2> QED
    BY <1>2, <2>2, <2>3, <2>4, <2>5
<1>7. ASSUME Enter PROVE ServerInv'
  <2>1. PICK todo, found, x : todo = walk.todo /\ found = walk.found /\ x = Head(walk.todo)
    OBVIOUS
  <2>2. walk # NoWalk /\ todo # <<>> /\ WalkOK(content, todo, found) /\ x = Head(todo)
    BY <1>4, <1>7, <2>1 DEF Enter
  <2>3. /\ x.dir /\ IncludesAsContent(x.path[Len(x.path)])
        /\ walk' = [walk EXCEPT !.todo = Inside(content, x.path) \o Tail(@)]
        /\ UNCHANGED <<content, index, said>>
    BY <1>7, <2>1 DEF Enter
  <2>4. WalkOK(content, Inside(content, x.path) \o Tail(todo), found)
    BY <1>1, <2>2, <2>3, WalkEnters
  <2>5. walk' = [todo |-> Inside(content, x.path) \o Tail(todo), found |-> found]
    <3>1. walk = [todo |-> todo, found |-> found]
      BY <1>1, <2>1, <2>2
    <3> QED
      BY <2>3, <3>1
  <2> QED
    BY <1>2, <2>2, <2>3, <2>4, <2>5
<1>8. ASSUME FinishWalk PROVE ServerInv'
  <2>1. /\ walk # NoWalk /\ walk.todo = <<>> /\ index' = CorpusIndex(walk.found)
        /\ walk' = NoWalk /\ content' = content /\ said' = said
    BY <1>8 DEF FinishWalk
  <2>2. PICK found : found = walk.found
    OBVIOUS
  <2>3. WalkOK(content, <<>>, found) /\ index = NoIndex
    BY <1>1, <2>1, <2>2
  <2>4. index'.chapters = found
    BY <2>1, <2>2 DEF CorpusIndex
  <2>5. index' = CorpusIndex(index'.chapters) /\ WalkOK(content', <<>>, index'.chapters)
    BY <2>1, <2>2, <2>3, <2>4
  <2> QED
    BY <1>1, <2>1, <2>3, <2>5 DEF ServerInv
<1>9. ASSUME NEW call \in Calls, Serve(call) PROVE ServerInv'
  <2>1. /\ index # NoIndex /\ said' = [call |-> call, answer |-> AnswerTo(index, call)]
        /\ content' = content /\ index' = index /\ walk' = walk
    BY <1>9 DEF Serve
  <2>2. said'.call = call /\ said'.answer = AnswerTo(index, call)
    BY <2>1
  <2>3. said'.call \in Calls /\ index' # NoIndex /\ said'.answer = AnswerTo(index', said'.call)
    BY <2>1, <2>2
  <2> QED
    BY <1>1, <2>1, <2>3 DEF ServerInv
<1>10. ASSUME NEW call \in Calls, TurnAway(call) PROVE ServerInv'
  <2>1. /\ said' = [call |-> call, answer |-> Unauthorized]
        /\ content' = content /\ index' = index /\ walk' = walk
    BY <1>10 DEF TurnAway, Unauthorized
  <2>2. said'.call \in Calls /\ said'.answer = Unauthorized
    BY <2>1
  <2> QED
    BY <1>1, <2>1, <2>2 DEF ServerInv
<1>11. ASSUME Read PROVE ServerInv'
  BY <1>1, <1>11 DEF Read, ServerInv
<1>12. ASSUME RestartServer PROVE ServerInv'
  BY <1>1, <1>12 DEF RestartServer, ServerInv
<1>13. ASSUME UNCHANGED serverVars PROVE ServerInv'
  BY <1>1, <1>13 DEF serverVars, ServerInv
<1> QED
  BY <1>3, <1>5, <1>6, <1>7, <1>8, <1>9, <1>10, <1>11, <1>12, <1>13 DEF ServerNext

\* What the server keeps at all times: the files do not change, the walk is in order and
\* leads to every chapter, the index is what the walk found, and the answer is the one
\* that the tools give (corpus.py:121-201, tools.py:62-143).
THEOREM ServerInvariant == ServerSpec => []ServerInv
<1>1. ServerInit => ServerInv
  BY ServerInvStarts
<1>2. ServerInv /\ [ServerNext]_serverVars => ServerInv'
  BY ServerInvSteps
<1> QED
  BY <1>1, <1>2, PTL DEF ServerSpec

-------------------------------------------------------------------------------
(***************************************************************************)
(* The index.                                                              *)
(***************************************************************************)

LEMMA LeastOf ==
  ASSUME NEW S \in SUBSET Nat, S # {}
  PROVE  \E o \in S : \A i \in S : o <= i
<1>1. PICK o \in S : \A i \in S : ~ (<<i, o>> \in OpToRel(<, Nat))
  BY NatLessThanWellFounded, WFMin, Zenon
<1>2. \A i \in S : ~ (i < o)
  BY <1>1 DEF OpToRel
<1> QED
  BY <1>2

LEMMA GreatestOf ==
  ASSUME NEW n \in Nat, NEW S \in SUBSET (1 .. n), S # {}
  PROVE  \E o \in S : \A i \in S : i <= o
<1> DEFINE D == {d \in 0 .. n : n - d \in S}
<1>1. D \in SUBSET Nat
  OBVIOUS
<1>2. \A i \in S : n - i \in D
  BY DEF D
<1>3. D # {}
  BY <1>2
<1>4. PICK d \in D : \A e \in D : d <= e
  BY <1>1, <1>3, LeastOf
<1>5. n - d \in S /\ d \in 0 .. n
  BY <1>4
<1>6. ASSUME NEW i \in S PROVE i <= n - d
  <2>1. d <= n - i /\ i \in 1 .. n
    BY <1>2, <1>4
  <2> QED
    BY <1>5, <2>1
<1> QED
  BY <1>5, <1>6

\* The id of a chapter is one that can be asked for.
LEMMA SlugsAreWhole ==
  ASSUME NEW path \in Seq(Name)
  PROVE  \A i \in DOMAIN ChapterSlug(path) : ChapterSlug(path)[i] # ""
<1> DEFINE slugs == [i \in DOMAIN path |-> Slugified[path[i].word]]
           places == {i \in DOMAIN path : slugs[i] # ""}
<1>1. PICK n \in Nat : DOMAIN path = 1 .. n
  OBVIOUS
<1>2. places \in SUBSET (1 .. n) /\ \A p \in places : slugs[p] # ""
  BY <1>1
<1>3. ChapterSlug(path) = Chosen(slugs, places)
  BY DEF ChapterSlug
<1> HIDE DEF slugs, places
<1>4. PICK T : T = {slugs[p] : p \in places}
  OBVIOUS
<1>5. \A p \in places : slugs[p] \in T
  BY <1>4
<1>6. Takes(Chosen(slugs, places), slugs, places, T)
  BY <1>1, <1>2, <1>5, ChosenIs
<1>7. PICK out : out = Chosen(slugs, places)
  OBVIOUS
<1>8. {out[i] : i \in DOMAIN out} = {slugs[p] : p \in places}
  BY <1>6, <1>7 DEF Takes
<1>9. \A i \in DOMAIN out : \E p \in places : out[i] = slugs[p]
  BY <1>8
<1> QED
  BY <1>2, <1>3, <1>7, <1>9

\* A slug is made of slug_like segments only if none of the names was mangled.
LEMMA SlugsAreSpelled ==
  ASSUME NEW path \in Seq(Name)
  PROVE  (\A i \in DOMAIN ChapterSlug(path) : ChapterSlug(path)[i] \in SlugLike)
           <=> \A k \in DOMAIN path : Slugified[path[k].word] \in SlugLike \cup {""}
<1> DEFINE slugs == [i \in DOMAIN path |-> Slugified[path[i].word]]
           places == {i \in DOMAIN path : slugs[i] # ""}
<1>1. PICK n \in Nat : DOMAIN path = 1 .. n
  OBVIOUS
<1>2. places \in SUBSET (1 .. n) /\ \A p \in places : slugs[p] = Slugified[path[p].word]
  BY <1>1
<1>3. \A k \in DOMAIN path : k \in places <=> Slugified[path[k].word] # ""
  OBVIOUS
<1>4. ChapterSlug(path) = Chosen(slugs, places)
  BY DEF ChapterSlug
<1> HIDE DEF slugs, places
<1>5. PICK T : T = {slugs[p] : p \in places}
  OBVIOUS
<1>6. \A p \in places : slugs[p] \in T
  BY <1>5
<1>7. Takes(Chosen(slugs, places), slugs, places, T)
  BY <1>1, <1>2, <1>6, ChosenIs
<1>8. PICK out : out = Chosen(slugs, places)
  OBVIOUS
<1>9. {out[i] : i \in DOMAIN out} = {slugs[p] : p \in places}
  BY <1>7, <1>8 DEF Takes
<1>10. (\A i \in DOMAIN out : out[i] \in SlugLike) <=> \A p \in places : slugs[p] \in SlugLike
  <2>1. (\A i \in DOMAIN out : out[i] \in SlugLike) <=> {out[i] : i \in DOMAIN out} \subseteq SlugLike
    OBVIOUS
  <2>2. (\A p \in places : slugs[p] \in SlugLike) <=> {slugs[p] : p \in places} \subseteq SlugLike
    OBVIOUS
  <2> QED
    BY <1>9, <2>1, <2>2
<1>11. (\A p \in places : slugs[p] \in SlugLike)
         <=> \A k \in DOMAIN path : Slugified[path[k].word] \in SlugLike \cup {""}
  BY <1>1, <1>2, <1>3
<1> QED
  BY <1>4, <1>8, <1>10, <1>11

\* The name of a chapter's file is one of its path; so are the names below the book.
LEMMA BelowTheBook ==
  ASSUME NEW path \in Seq(Name), Len(path) > 1
  PROVE  /\ Tail(path) \in Seq(Name)
         /\ Spelled(path) <=> \A k \in DOMAIN Tail(path) : Slugified[Tail(path)[k].word] \in SlugLike \cup {""}
<1>1. PICK n \in Nat : DOMAIN path = 1 .. n /\ n = Len(path)
  OBVIOUS
<1>2. PICK tail : tail = Tail(path)
  OBVIOUS
<1>3. tail \in Seq(Name) /\ DOMAIN tail = 1 .. n - 1 /\ \A k \in 1 .. n - 1 : tail[k] = path[k + 1]
  BY <1>1, <1>2
<1>4. ASSUME NEW k \in 2 .. n PROVE k - 1 \in 1 .. n - 1 /\ tail[k - 1] = path[k]
  BY <1>1, <1>3
<1>5. ASSUME NEW k \in 1 .. n - 1 PROVE k + 1 \in 2 .. n /\ tail[k] = path[k + 1]
  BY <1>1, <1>3
<1>6. ASSUME \A k \in 2 .. n : Slugified[path[k].word] \in SlugLike \cup {""},
             NEW k \in 1 .. n - 1
      PROVE  Slugified[tail[k].word] \in SlugLike \cup {""}
  BY <1>5, <1>6
<1>7. ASSUME \A k \in 1 .. n - 1 : Slugified[tail[k].word] \in SlugLike \cup {""},
             NEW k \in 2 .. n
      PROVE  Slugified[path[k].word] \in SlugLike \cup {""}
  BY <1>4, <1>7
<1>8. Spelled(path) <=> \A k \in 2 .. n : Slugified[path[k].word] \in SlugLike \cup {""}
  BY <1>1 DEF Spelled
<1> QED
  BY <1>2, <1>3, <1>6, <1>7, <1>8

LEMMA ChapterIds ==
  ASSUME NEW files, IsCorpus(files), NEW meta \in ChaptersOf(files)
  PROVE  LET id == ProblemId(meta) IN
         /\ id[2] # <<>> /\ \A i \in DOMAIN id[2] : id[2][i] # ""
         /\ (\A i \in DOMAIN id[2] : id[2][i] \in SlugLike) <=> Spelled(meta.file.path)
<1>1. meta.file \in files /\ IsChapter(meta.file) /\ meta = MetaOf(meta.file)
  BY ChapterLeaf
<1> DEFINE path == meta.file.path
<1>2. path \in Seq(Name) /\ Len(path) > 1 /\ \E i \in 2 .. Len(path) : Slugified[path[i].word] # ""
  BY <1>1 DEF IsCorpus, File, IsChapter
<1>3. meta.slug = ChapterSlug(Tail(path))
  <2>1. MetaOf(meta.file).slug = ChapterSlug(Tail(path))
    BY DEF MetaOf
  <2> QED
    BY <1>1, <2>1
<1>4. ProblemId(meta)[2] = ChapterSlug(Tail(path))
  BY <1>3 DEF ProblemId
<1> HIDE DEF path
<1>5. Tail(path) \in Seq(Name)
  BY <1>2, BelowTheBook
<1>6. ChapterSlug(Tail(path)) # <<>>
  BY <1>2, ChapterHasSlug
<1>7. \A i \in DOMAIN ChapterSlug(Tail(path)) : ChapterSlug(Tail(path))[i] # ""
  BY <1>5, SlugsAreWhole
<1>8. (\A i \in DOMAIN ChapterSlug(Tail(path)) : ChapterSlug(Tail(path))[i] \in SlugLike) <=> Spelled(path)
  BY <1>2, <1>5, BelowTheBook, SlugsAreSpelled
<1>9. path = meta.file.path
  BY DEF path
<1> QED
  BY <1>4, <1>6, <1>7, <1>8, <1>9

IsIndex(files, of) == of = CorpusIndex(of.chapters) /\ of.chapters \in Seq(ChaptersOf(files))

\* The index has a document for each chapter, and it is about a chapter with that id.
IndexServes(files, of) ==
  /\ Len(of.chapters) \in Nat /\ DOMAIN of.chapters = 1 .. Len(of.chapters)
  /\ \A i \in DOMAIN of.chapters : of.chapters[i] \in ChaptersOf(files)
                                   /\ ProblemId(of.chapters[i]) \in DOMAIN of.docs
  /\ \A id \in DOMAIN of.docs : \E i \in DOMAIN of.chapters :
       of.docs[id] = DocOf(of.chapters[i]) /\ ProblemId(of.chapters[i]) = id

LEMMA IndexIs ==
  ASSUME NEW files, IsCorpus(files), NEW of, IsIndex(files, of)
  PROVE  IndexServes(files, of)
<1>0. PICK c : c = of.chapters
  OBVIOUS
<1> DEFINE n == Len(c)
           I == {ProblemId(c[i]) : i \in DOMAIN c}
           Last(id) == CHOOSE i \in DOMAIN c :
             ProblemId(c[i]) = id /\ \A j \in DOMAIN c : ProblemId(c[j]) = id => j <= i
<1>1. c \in Seq(ChaptersOf(files)) /\ of = CorpusIndex(c)
  BY <1>0 DEF IsIndex
<1>2. of.docs = [id \in I |-> DocOf(c[Last(id)])]
  <2>1. CorpusIndex(c).docs = [id \in I |-> DocOf(c[Last(id)])]
    BY DEF CorpusIndex
  <2> QED
    BY <1>1, <2>1
<1>3. n \in Nat /\ DOMAIN c = 1 .. n /\ \A i \in DOMAIN c : c[i] \in ChaptersOf(files)
  BY <1>1
<1>4. ASSUME NEW id \in I PROVE Last(id) \in DOMAIN c /\ ProblemId(c[Last(id)]) = id
  <2> DEFINE S == {i \in DOMAIN c : ProblemId(c[i]) = id}
  <2>1. S \in SUBSET (1 .. n) /\ S # {}
    BY <1>3
  <2>2. PICK o \in S : \A i \in S : i <= o
    BY <1>3, <2>1, GreatestOf
  <2>3. o \in DOMAIN c /\ ProblemId(c[o]) = id /\ \A j \in DOMAIN c : ProblemId(c[j]) = id => j <= o
    BY <2>2
  <2> QED
    BY <2>3
<1>5. DOMAIN of.docs = I
  BY <1>2
<1>6. ASSUME NEW id \in I PROVE \E i \in DOMAIN c : of.docs[id] = DocOf(c[i]) /\ ProblemId(c[i]) = id
  BY <1>2, <1>4
<1>7. ASSUME NEW i \in DOMAIN c PROVE ProblemId(c[i]) \in DOMAIN of.docs
  BY <1>5
<1> QED
  BY <1>0, <1>3, <1>5, <1>6, <1>7 DEF IndexServes

\* A document is about a chapter with its id, and is split as the chapter is.
LEMMA DocsAre ==
  ASSUME NEW files, IsCorpus(files), NEW of, IsIndex(files, of), NEW id \in DOMAIN of.docs
  PROVE  /\ of.docs[id].meta \in ChaptersOf(files)
         /\ ProblemId(of.docs[id].meta) = id
         /\ of.docs[id].split = Split(of.docs[id].meta.file.body)
         /\ \E i \in DOMAIN of.chapters : of.docs[id].meta = of.chapters[i]
<1>1. IndexServes(files, of)
  BY IndexIs
<1>2. PICK i \in DOMAIN of.chapters : of.docs[id] = DocOf(of.chapters[i]) /\ ProblemId(of.chapters[i]) = id
  BY <1>1 DEF IndexServes
<1>3. of.docs[id].meta = of.chapters[i] /\ of.docs[id].split = Split(of.chapters[i].file.body)
  BY <1>2 DEF DocOf
<1> QED
  BY <1>1, <1>2, <1>3 DEF IndexServes
-------------------------------------------------------------------------------
(***************************************************************************)
(* What is withheld of a text.                                             *)
(***************************************************************************)

Terms(body) == {k \in DOMAIN body : body[k] \in Term}

\* The two parts of a text: all terms, and each in one of them.
Parted(body, split) ==
  /\ split.visible \in Seq(Term) /\ split.solution \in Seq(Term)
  /\ Cardinality(Terms(body)) \in Nat
  /\ Len(split.visible) <= Cardinality(Terms(body)) /\ Len(split.solution) <= Cardinality(Terms(body))
  /\ TermsOf(split.visible) = {body[k] : k \in {k \in Terms(body) : ~ InBlock(body, k)}}
  /\ TermsOf(split.solution) = {body[k] : k \in {k \in Terms(body) : InBlock(body, k)}}

LEMMA SplitParts ==
  ASSUME NEW body \in Seq(Block)
  PROVE  Parted(body, Split(body))
<1> DEFINE V == {k \in DOMAIN body : body[k] \in Term /\ ~ InBlock(body, k)}
           W == {k \in DOMAIN body : body[k] \in Term /\ InBlock(body, k)}
           v == Chosen(body, V)
           w == Chosen(body, W)
<1>1. PICK n \in Nat : DOMAIN body = 1 .. n
  OBVIOUS
<1>2. /\ V \in SUBSET (1 .. n) /\ W \in SUBSET (1 .. n) /\ Terms(body) \in SUBSET (1 .. n)
      /\ \A k \in V : body[k] \in Term
      /\ \A k \in W : body[k] \in Term
      /\ V \in SUBSET Terms(body) /\ W \in SUBSET Terms(body)
  BY <1>1 DEF Terms
<1>3. V = {k \in Terms(body) : ~ InBlock(body, k)} /\ W = {k \in Terms(body) : InBlock(body, k)}
  BY DEF Terms
<1>4. Split(body) = [visible |-> v, solution |-> w]
  BY DEF Split
<1> HIDE DEF V, W, v, w
<1>5. Takes(v, body, V, Term) /\ Takes(w, body, W, Term)
  BY <1>1, <1>2, ChosenIs DEF v, w
<1>6. IsFiniteSet(1 .. n)
  BY <1>1, FS_Interval
<1>7. IsFiniteSet(Terms(body))
  BY <1>2, <1>6, FS_Subset
<1>8. Cardinality(Terms(body)) \in Nat
  BY <1>7, FS_CardinalityType
<1>9. Cardinality(V) <= Cardinality(Terms(body)) /\ Cardinality(W) <= Cardinality(Terms(body))
  BY <1>2, <1>7, FS_Subset
<1>10. /\ v \in Seq(Term) /\ Len(v) = Cardinality(V) /\ TermsOf(v) = {body[k] : k \in V}
       /\ w \in Seq(Term) /\ Len(w) = Cardinality(W) /\ TermsOf(w) = {body[k] : k \in W}
  BY <1>5 DEF Takes, TermsOf
<1>11. Split(body).visible = v /\ Split(body).solution = w
  BY <1>4
<1> QED
  BY <1>3, <1>8, <1>9, <1>10, <1>11 DEF Parted

\* Counting tags.
LEMMA TagsCount ==
  ASSUME NEW body, NEW tag
  PROVE  /\ \A k \in Nat : Tags(body, k, tag) \in Nat
         /\ Tags(body, 0, tag) = 0
         /\ \A k \in Nat : body[k + 1] = tag => Tags(body, k + 1, tag) = Tags(body, k, tag) + 1
         /\ \A i, k \in Nat : i <= k => Tags(body, i, tag) <= Tags(body, k, tag)
         /\ \A i, k \in Nat : i <= k /\ (\A j \in i + 1 .. k : body[j] # tag) =>
              Tags(body, i, tag) = Tags(body, k, tag)
<1> DEFINE S(k) == {i \in 1 .. k : body[i] = tag}
<1>1. ASSUME NEW k \in Nat PROVE IsFiniteSet(S(k)) /\ Cardinality(S(k)) \in Nat /\ Tags(body, k, tag) = Cardinality(S(k))
  <2>1. IsFiniteSet(1 .. k)
    BY FS_Interval
  <2>2. IsFiniteSet(S(k))
    BY <2>1, FS_Subset
  <2> QED
    BY <2>2, FS_CardinalityType DEF Tags
<1>2. Tags(body, 0, tag) = 0
  <2>1. S(0) = {}
    OBVIOUS
  <2> QED
    BY <1>1, <2>1, FS_EmptySet
<1>3. ASSUME NEW k \in Nat, body[k + 1] = tag PROVE Tags(body, k + 1, tag) = Tags(body, k, tag) + 1
  <2>1. S(k + 1) = S(k) \cup {k + 1} /\ k + 1 \notin S(k)
    BY <1>3
  <2>2. Cardinality(S(k) \cup {k + 1}) = Cardinality(S(k)) + 1
    BY <1>1, <2>1, FS_AddElement
  <2>3. k + 1 \in Nat
    OBVIOUS
  <2>4. Tags(body, k + 1, tag) = Cardinality(S(k + 1)) /\ Tags(body, k, tag) = Cardinality(S(k))
    BY <1>1, <2>3
  <2> HIDE DEF S
  <2> QED
    BY <2>1, <2>2, <2>4
<1>4. ASSUME NEW i \in Nat, NEW k \in Nat, i <= k PROVE Tags(body, i, tag) <= Tags(body, k, tag)
  <2>1. S(i) \in SUBSET S(k)
    BY <1>4
  <2>2. Cardinality(S(i)) <= Cardinality(S(k))
    BY <1>1, <2>1, FS_Subset
  <2> QED
    BY <1>1, <2>2
<1>5. ASSUME NEW i \in Nat, NEW k \in Nat, i <= k, \A j \in i + 1 .. k : body[j] # tag
      PROVE  Tags(body, i, tag) = Tags(body, k, tag)
  <2>1. S(i) = S(k)
    BY <1>5
  <2> QED
    BY <1>1, <2>1
<1> QED
  BY <1>1, <1>2, <1>3, <1>4, <1>5

\* In a flat text, a term is in a block when one more was opened than closed.
LEMMA FlatBlocks ==
  ASSUME NEW body \in Seq(Block), Flat(body), NEW k \in Terms(body)
  PROVE  InBlock(body, k) <=> Tags(body, k, "open") # Tags(body, k, "close")
<1> DEFINE O(i) == Tags(body, i, "open")
           C(i) == Tags(body, i, "close")
<1>1. PICK n \in Nat : n = Len(body)
  OBVIOUS
<1>2. DOMAIN body = 1 .. n /\ k \in 1 .. n /\ body[k] \in Term
  BY <1>1 DEF Terms
<1>3. body[k] # "open" /\ body[k] # "close"
  <2>1. {"open", "close"} \cap Term = {}
    BY CorpusAssumption
  <2> QED
    BY <1>2, <2>1
<1>4. /\ \A i \in 1 .. n : O(i) - C(i) = 0 \/ O(i) - C(i) = 1
      /\ n > 0 => O(n) = C(n)
  BY <1>1, <1>2 DEF Flat
<1>5. /\ \A i \in Nat : O(i) \in Nat /\ C(i) \in Nat
      /\ O(0) = 0 /\ C(0) = 0
      /\ \A i \in Nat : body[i + 1] = "open" => O(i + 1) = O(i) + 1
      /\ \A i \in Nat : body[i + 1] = "close" => C(i + 1) = C(i) + 1
      /\ \A i, j \in Nat : i <= j => O(i) <= O(j) /\ C(i) <= C(j)
      /\ \A i, j \in Nat : i <= j /\ (\A l \in i + 1 .. j : body[l] # "open") => O(i) = O(j)
      /\ \A i, j \in Nat : i <= j /\ (\A l \in i + 1 .. j : body[l] # "close") => C(i) = C(j)
  BY TagsCount
<1> HIDE DEF O, C
<1>6. ASSUME InBlock(body, k) PROVE O(k) # C(k)
  <2>1. PICK i \in 1 .. k : body[i] = "open" /\ \A j \in i .. k - 1 : body[j] # "close"
    BY <1>6 DEF InBlock
  <2>2. PICK h \in Nat : i = h + 1
    <3>1. i - 1 \in Nat /\ i = (i - 1) + 1
      BY <1>2
    <3> QED
      BY <3>1
  <2>3. k \in Nat /\ i \in Nat /\ h <= k /\ i <= k /\ i \in 1 .. n /\ h <= i
    BY <1>2, <2>2
  <2>4. \A j \in h + 1 .. k : body[j] # "close"
    <3>1. \A j \in h + 1 .. k : j \in i .. k - 1 \/ j = k
      BY <2>2, <2>3
    <3> QED
      BY <1>3, <2>1, <3>1
  <2>5. C(h) = C(k)
    BY <1>5, <2>3, <2>4
  <2>6. O(i) = O(h) + 1
    BY <1>5, <2>1, <2>2
  <2>7. O(i) <= O(k)
    BY <1>5, <2>3
  <2>8. O(h) >= C(h)
    <3>1. CASE h = 0
      BY <1>5, <3>1
    <3>2. CASE h # 0
      <4>1. h \in 1 .. n
        BY <2>3, <3>2
      <4>2. O(h) \in Nat /\ C(h) \in Nat
        BY <1>5
      <4> QED
        BY <1>4, <4>1, <4>2
    <3> QED
      BY <3>1, <3>2
  <2>9. O(h) \in Nat /\ C(h) \in Nat /\ O(k) \in Nat /\ C(k) \in Nat
    BY <1>5, <2>3
  <2> QED
    BY <2>5, <2>6, <2>7, <2>8, <2>9
<1>7. ASSUME O(k) # C(k) PROVE InBlock(body, k)
  <2>1. k \in Nat /\ k <= n /\ k >= 1
    BY <1>2
  <2>2. O(k) \in Nat /\ C(k) \in Nat /\ O(k) = C(k) + 1
    <3>1. O(k) \in Nat /\ C(k) \in Nat
      BY <1>5, <2>1
    <3>2. O(k) - C(k) = 0 \/ O(k) - C(k) = 1
      BY <1>2, <1>4
    <3> QED
      BY <1>7, <3>1, <3>2
  <2> DEFINE S == {i \in 1 .. k : body[i] = "open"}
  <2>3. S # {}
    <3> SUFFICES ASSUME S = {} PROVE FALSE
      OBVIOUS
    <3>1. \A l \in 0 + 1 .. k : body[l] # "open"
      OBVIOUS
    <3>2. O(0) = O(k)
      BY <1>5, <2>1, <3>1
    <3> QED
      BY <1>5, <2>2, <3>2
  <2>4. PICK i \in S : \A j \in S : j <= i
    BY <2>1, <2>3, GreatestOf
  <2>5. i \in 1 .. k /\ body[i] = "open" /\ i \in Nat /\ i \in 1 .. n
    BY <2>1, <2>4
  <2>6. \A l \in i + 1 .. k : body[l] # "open"
    BY <2>1, <2>4
  <2>7. O(i) = O(k)
    BY <1>5, <2>1, <2>5, <2>6
  <2>8. \A j \in i .. k - 1 : body[j] # "close"
    <3> SUFFICES ASSUME NEW j \in i .. k - 1, body[j] = "close" PROVE FALSE
      OBVIOUS
    <3>1. j # i
      BY <2>5
    <3>2. PICK h \in Nat : j = h + 1
      <4>1. j - 1 \in Nat /\ j = (j - 1) + 1
        BY <2>5
      <4> QED
        BY <4>1
    <3>3. i <= h /\ j <= k /\ j \in Nat
      BY <2>1, <2>5, <3>1, <3>2
    <3>4. C(j) = C(h) + 1 /\ C(i) <= C(h) /\ C(j) <= C(k)
      BY <1>5, <2>1, <2>5, <3>2, <3>3
    <3>5. O(i) - C(i) = 0 \/ O(i) - C(i) = 1
      BY <1>4, <2>5
    <3>6. C(i) \in Nat /\ C(h) \in Nat /\ O(i) \in Nat
      BY <1>5, <2>5
    <3> QED
      BY <2>2, <2>7, <3>4, <3>5, <3>6
  <2>9. \E j \in k .. Len(body) : body[j] = "close"
    <3> SUFFICES ASSUME \A j \in k .. n : body[j] # "close" PROVE FALSE
      BY <1>1
    <3>1. \A l \in k + 1 .. n : body[l] # "close"
      BY <2>1
    <3>2. C(k) = C(n)
      BY <1>5, <2>1, <3>1
    <3>3. O(k) <= O(n) /\ O(n) = C(n)
      BY <1>4, <1>5, <2>1
    <3> QED
      BY <2>2, <3>2, <3>3
  <2> QED
    BY <2>5, <2>8, <2>9 DEF InBlock
<1> QED
  BY <1>6, <1>7 DEF O, C

\* What is shown of a flat text is what stands outside its blocks.
LEMMA VisibleIsOutside ==
  ASSUME NEW body \in Seq(Block), Flat(body)
  PROVE  TermsOf(Split(body).visible) = Outside(body)
<1>1. \A k \in Terms(body) : InBlock(body, k) <=> Tags(body, k, "open") # Tags(body, k, "close")
  BY FlatBlocks
<1>2. {k \in Terms(body) : ~ InBlock(body, k)} = {k \in DOMAIN body :
        body[k] \in Term /\ Tags(body, k, "open") = Tags(body, k, "close")}
  BY <1>1 DEF Terms
<1>3. Parted(body, Split(body))
  BY SplitParts
<1> QED
  BY <1>2, <1>3 DEF Parted, Outside
-------------------------------------------------------------------------------
(***************************************************************************)
(* Search.                                                                 *)
(***************************************************************************)

\* The beginning of a sequence.
LEMMA BeginningIs ==
  ASSUME NEW T, NEW seq \in Seq(T), NEW n \in Nat, NEW b, b = FirstOf(seq, n)
  PROVE  /\ b \in Seq(T) /\ Len(b) \in Nat /\ Len(seq) \in Nat
         /\ Len(b) = AtMost(n, Len(seq)) /\ Len(b) <= n /\ Len(b) <= Len(seq)
         /\ DOMAIN b = 1 .. Len(b) /\ DOMAIN seq = 1 .. Len(seq)
         /\ \A i \in 1 .. Len(b) : b[i] = seq[i] /\ i \in 1 .. Len(seq)
<1> DEFINE m == IF n < Len(seq) THEN n ELSE Len(seq)
<1>1. Len(seq) \in Nat /\ m \in Nat /\ m <= Len(seq) /\ m <= n /\ DOMAIN seq = 1 .. Len(seq)
  OBVIOUS
<1>2. b = SubSeq(seq, 1, m)
  BY DEF FirstOf
<1>3. m = AtMost(n, Len(seq))
  BY DEF AtMost
<1> HIDE DEF m
<1>4. b \in Seq(T) /\ Len(b) = m /\ DOMAIN b = 1 .. m /\ \A i \in 1 .. m : b[i] = seq[i]
  BY <1>1, <1>2
<1> QED
  BY <1>1, <1>3, <1>4

\* The title of a chapter is that of its file, and made of terms.
LEMMA TitleIs ==
  ASSUME NEW files, IsCorpus(files), NEW meta \in ChaptersOf(files)
  PROVE  meta.title = TitleOf(meta.file) /\ meta.title \in SUBSET Term
<1>1. PICK file : file = meta.file
  OBVIOUS
<1>2. file \in File /\ meta = MetaOf(file) /\ Len(file.path) > 1
  BY <1>1, ChapterLeaf DEF IsCorpus, IsChapter
<1>3. MetaOf(file).title = TitleOf(file)
  BY DEF MetaOf
<1>4. file.given \in SUBSET Term
  BY <1>2 DEF File
<1>5. HeadingOf(file) \in SUBSET Term
  BY <1>2 DEF File, HeadingOf
<1>6. Humanised[file.path[Len(file.path)].word] \in SUBSET Term
  <2>1. file.path \in Seq(Name)
    BY <1>2 DEF File
  <2>2. \A s \in Seq(Name) : Len(s) > 1 => s[Len(s)] \in Name
    OBVIOUS
  <2>3. file.path[Len(file.path)].word \in Word
    BY <1>2, <2>1, <2>2 DEF Name
  <2> QED
    BY <2>3, CorpusAssumption
<1>7. TitleOf(file) \in SUBSET Term
  BY <1>4, <1>5, <1>6 DEF TitleOf
<1> QED
  BY <1>1, <1>2, <1>3, <1>7

\* What can be searched for and found are terms.
LEMMA IndexedTerms ==
  ASSUME NEW files, IsCorpus(files), NEW of, IsIndex(files, of), NEW meta \in ChaptersOf(files)
  PROVE  IndexedText(of, meta) \in SUBSET Term
<1>1. meta.title \in SUBSET Term
  BY TitleIs
<1>2. ASSUME NEW id \in DOMAIN of.docs PROVE TermsOf(of.docs[id].split.visible) \in SUBSET Term
  <2>1. PICK body : body = of.docs[id].meta.file.body
    OBVIOUS
  <2>2. of.docs[id].meta \in ChaptersOf(files) /\ of.docs[id].split = Split(body)
    BY <2>1, DocsAre
  <2>3. body \in Seq(Block)
    BY <2>1, <2>2, ChapterLeaf DEF IsCorpus, File
  <2>4. Split(body).visible \in Seq(Term)
    BY <2>3, SplitParts DEF Parted
  <2>5. \A s \in Seq(Term) : \A i \in DOMAIN s : s[i] \in Term
    OBVIOUS
  <2> QED
    BY <2>2, <2>4, <2>5 DEF TermsOf
<1>3. Resolves(of, ProblemId(meta)) => ProblemId(meta) \in DOMAIN of.docs
  BY DEF Resolves
<1> QED
  BY <1>1, <1>2, <1>3 DEF IndexedText

LEMMA ScoresAreNumbers ==
  ASSUME NEW of, NEW meta, NEW query \in SUBSET Term
  PROVE  Score(of, meta, query) \in Nat /\ (Score(of, meta, query) > 0 <=> query \cap IndexedText(of, meta) # {})
<1> DEFINE S == query \cap IndexedText(of, meta)
<1>1. IsFiniteSet(Term)
  BY CorpusAssumption
<1>2. S \in SUBSET Term
  OBVIOUS
<1>3. IsFiniteSet(S)
  BY <1>1, <1>2, FS_Subset
<1>4. Cardinality(S) \in Nat /\ (Cardinality(S) = 0 <=> S = {})
  BY <1>3, FS_CardinalityType, FS_EmptySet
<1>5. Score(of, meta, query) = Cardinality(S)
  BY DEF Score
<1> QED
  BY <1>4, <1>5

LEMMA IdPlaceIs ==
  ASSUME NEW files, NEW of, IndexServes(files, of), NEW i \in DOMAIN of.chapters
  PROVE  IdPlace(of, ProblemId(of.chapters[i])) \in Nat
<1> DEFINE id == ProblemId(of.chapters[i])
           S == {j \in DOMAIN of.chapters : ProblemId(of.chapters[j]) = id}
<1>1. DOMAIN of.chapters \subseteq Nat
  BY DEF IndexServes
<1>2. S \in SUBSET Nat /\ S # {}
  BY <1>1
<1>3. PICK o \in S : \A j \in S : o <= j
  BY <1>2, LeastOf
<1>4. \E j \in DOMAIN of.chapters :
        ProblemId(of.chapters[j]) = id /\ \A k \in DOMAIN of.chapters : ProblemId(of.chapters[k]) = id => j <= k
  BY <1>3
<1>5. IdPlace(of, id) \in DOMAIN of.chapters
  BY <1>4 DEF IdPlace
<1> QED
  BY <1>1, <1>5

\* The chapters that match, best first.
Found(of, query, book) ==
  {i \in DOMAIN of.chapters : (book = AnyBook \/ of.chapters[i].book = book)
                              /\ Score(of, of.chapters[i], query) > 0}

HitsRank(of, query, book) ==
  LET n == Cardinality(Found(of, query, book))
      h == Hits(of, query, book)
  IN  /\ n \in Nat /\ h \in Seq(Found(of, query, book)) /\ Len(h) = n
      /\ \A i \in Found(of, query, book) : \E k \in 1 .. n : h[k] = i
      /\ \A k, l \in 1 .. n : k < l =>
           /\ h[k] # h[l]
           /\ Score(of, of.chapters[h[k]], query) >= Score(of, of.chapters[h[l]], query)

LEMMA HitsAre ==
  ASSUME NEW files, IsCorpus(files), NEW of, IsIndex(files, of), NEW query \in SUBSET Term, NEW book
  PROVE  HitsRank(of, query, book)
<1> DEFINE S == Found(of, query, book)
           before == {p \in S \X S : HitBefore(of, query, p[1], p[2])}
           A(i) == Score(of, of.chapters[i], query)
           B(i) == IdPlace(of, ProblemId(of.chapters[i]))
           n == Cardinality(S)
           h == Hits(of, query, book)
<1>1. IndexServes(files, of)
  BY IndexIs
<1>2. S \in SUBSET (DOMAIN of.chapters)
  BY DEF Found
<1>3. Len(of.chapters) \in Nat /\ DOMAIN of.chapters = 1 .. Len(of.chapters)
  BY <1>1 DEF IndexServes
<1>4. IsFiniteSet(S)
  <2>1. IsFiniteSet(1 .. Len(of.chapters))
    BY <1>3, FS_Interval
  <2> QED
    BY <1>2, <1>3, <2>1, FS_Subset
<1>5. ASSUME NEW i \in S PROVE A(i) \in Nat /\ B(i) \in Nat /\ i \in Nat
  BY <1>1, <1>2, <1>3, ScoresAreNumbers, IdPlaceIs
<1>6. h = Sorted(S, before)
  BY DEF Hits, Found
<1>7. \A i, j \in S : HitBefore(of, query, i, j) <=>
        A(i) > A(j) \/ (A(i) = A(j) /\ B(i) > B(j)) \/ (A(i) = A(j) /\ B(i) = B(j) /\ i < j)
  BY DEF HitBefore
<1>8. \A i, j \in S : <<i, j>> \in before <=> HitBefore(of, query, i, j)
  OBVIOUS
<1> HIDE DEF S, before, A, B, h
<1>9. StrictlyOrders(before, S)
  <2>1. \A i, j \in S : <<i, j>> \in before <=>
          A(i) > A(j) \/ (A(i) = A(j) /\ B(i) > B(j)) \/ (A(i) = A(j) /\ B(i) = B(j) /\ i < j)
    BY <1>7, <1>8
  <2>2. \A i \in S : <<i, i>> \notin before
    BY <1>5, <2>1
  <2>3. ASSUME NEW i \in S, NEW j \in S, NEW k \in S, <<i, j>> \in before, <<j, k>> \in before
        PROVE  <<i, k>> \in before
    BY <1>5, <2>1, <2>3
  <2>4. ASSUME NEW i \in S, NEW j \in S, i # j PROVE <<i, j>> \in before \/ <<j, i>> \in before
    BY <1>5, <2>1, <2>4
  <2> QED
    BY <2>2, <2>3, <2>4 DEF StrictlyOrders
<1>10. Arranges(h, S, before)
  BY <1>4, <1>6, <1>9, SortedArranges
<1>11. n \in Nat /\ h \in [1 .. n -> S] /\ \A i \in S : \E k \in 1 .. n : h[k] = i
  BY <1>10 DEF Arranges
<1>12. h \in Seq(S) /\ Len(h) = n
  BY <1>11
<1>13. ASSUME NEW k \in 1 .. n, NEW l \in 1 .. n, k < l
       PROVE  h[k] # h[l] /\ A(h[k]) >= A(h[l])
  <2>1. <<h[k], h[l]>> \in before /\ h[k] \in S /\ h[l] \in S
    BY <1>10, <1>11, <1>13 DEF Arranges
  <2>2. h[k] # h[l]
    BY <1>9, <2>1 DEF StrictlyOrders
  <2>3. A(h[k]) > A(h[l]) \/ A(h[k]) = A(h[l])
    BY <1>7, <1>8, <2>1
  <2> QED
    BY <1>5, <2>1, <2>2, <2>3
<1> QED
  BY <1>11, <1>12, <1>13 DEF HitsRank, S, h, A
SearchOf(files, of, query, n, book) ==
  LET h == Hits(of, query, book)
      r == Search(of, query, n, book)
  IN  /\ Len(r) \in Nat /\ Len(r) = AtMost(n, Len(h)) /\ Len(r) <= n /\ Len(r) <= Len(h)
      /\ DOMAIN r = 1 .. Len(r) /\ r \in Seq(ChaptersOf(files))
      /\ \A k \in 1 .. Len(r) :
           k \in 1 .. Len(h) /\ h[k] \in Found(of, query, book) /\ h[k] \in DOMAIN of.chapters
             /\ r[k] = of.chapters[h[k]]

LEMMA SearchIs ==
  ASSUME NEW files, IsCorpus(files), NEW of, IsIndex(files, of), NEW query \in SUBSET Term, NEW book, NEW n \in Nat
  PROVE  SearchOf(files, of, query, n, book)
<1> DEFINE S == Found(of, query, book)
           h == Hits(of, query, book)
           b == FirstOf(h, n)
           r == Search(of, query, n, book)
<1>1. h \in Seq(S)
  BY HitsAre DEF HitsRank
<1>2. S \in SUBSET (DOMAIN of.chapters)
  BY DEF Found
<1>3. \A i \in DOMAIN of.chapters : of.chapters[i] \in ChaptersOf(files)
  BY IndexIs DEF IndexServes
<1>4. r = [k \in DOMAIN b |-> of.chapters[b[k]]]
  BY DEF Search
<1> HIDE DEF S, h, b, r
<1>5. /\ b \in Seq(S) /\ Len(b) \in Nat /\ Len(b) = AtMost(n, Len(h)) /\ Len(b) <= n /\ Len(b) <= Len(h)
      /\ DOMAIN b = 1 .. Len(b)
      /\ \A k \in 1 .. Len(b) : b[k] = h[k] /\ k \in 1 .. Len(h)
  BY <1>1, BeginningIs DEF b
<1>6. ASSUME NEW k \in 1 .. Len(b)
      PROVE  h[k] \in S /\ h[k] \in DOMAIN of.chapters /\ r[k] = of.chapters[h[k]] /\ r[k] \in ChaptersOf(files)
  BY <1>1, <1>2, <1>3, <1>4, <1>5
<1>7. DOMAIN r = 1 .. Len(b) /\ r = [k \in 1 .. Len(b) |-> r[k]]
  BY <1>4, <1>5
<1>8. r \in [1 .. Len(b) -> ChaptersOf(files)]
  BY <1>6, <1>7
<1>9. r \in Seq(ChaptersOf(files)) /\ Len(r) = Len(b)
  BY <1>5, <1>7, <1>8
<1> QED
  BY <1>5, <1>6, <1>7, <1>9 DEF SearchOf, S, h, r

LEMMA LimitedIs ==
  ASSUME NEW limit \in Nat \cup {NoLimit}, NEW max \in Nat
  PROVE  Limited(limit, max) \in Nat /\ Limited(limit, max) <= max
BY DEF Limited

\* What the answer is, when it lists ids.
LEMMA AnswerIs ==
  ASSUME ServerInv, said # NothingSaid, "ids" \in DOMAIN said.answer
  PROVE  /\ IsCorpus(content) /\ IsIndex(content, index) /\ said.call \in Call /\ index # NoIndex
         /\ said.call.tool = "search" => said.answer = SearchCorpus(index, said.call)
         /\ said.call.tool = "outline" => said.answer = GetOutline(index, said.call)
         /\ said.call.tool \in {"related", "problem", "lesson"} => Resolves(index, said.call.id)
         /\ said.call.tool = "related" => said.answer = ListRelated(index, said.call)
         /\ said.call.tool = "problem" => said.answer = GetProblem(index, said.call)
         /\ said.call.tool = "lesson" => said.answer = GetLesson(index, said.call)
<1>1. /\ IsCorpus(content) /\ said.call \in Calls
      /\ said.answer = Unauthorized \/ (index # NoIndex /\ said.answer = AnswerTo(index, said.call))
      /\ index # NoIndex => index = CorpusIndex(index.chapters) /\ WalkOK(content, <<>>, index.chapters)
  BY DEF ServerInv
<1>2. said.answer # Unauthorized /\ said.answer # NotFound
  <2>1. DOMAIN Unauthorized = {"error"} /\ DOMAIN NotFound = {"error"}
    BY DEF Unauthorized, NotFound
  <2> QED
    BY <2>1
<1>3. index # NoIndex /\ said.answer = AnswerTo(index, said.call)
  BY <1>1, <1>2
<1>4. IsIndex(content, index)
  BY <1>1, <1>3 DEF IsIndex, WalkOK
<1>5. said.call \in Call
  BY <1>1, ServerAssumption
<1> DEFINE tool == said.call.tool
<1>6. tool = "search" => said.answer = SearchCorpus(index, said.call)
  BY <1>3 DEF AnswerTo
<1>7. tool = "outline" => said.answer = GetOutline(index, said.call)
  BY <1>3 DEF AnswerTo
<1>8. ASSUME tool \in {"related", "problem", "lesson"} PROVE Resolves(index, said.call.id)
  BY <1>2, <1>3, <1>8 DEF AnswerTo
<1>9. ASSUME tool = "related" PROVE said.answer = ListRelated(index, said.call)
  BY <1>3, <1>8, <1>9 DEF AnswerTo
<1>10. ASSUME tool = "problem" PROVE said.answer = GetProblem(index, said.call)
  BY <1>3, <1>8, <1>10 DEF AnswerTo
<1>11. ASSUME tool = "lesson" PROVE said.answer = GetLesson(index, said.call)
  BY <1>3, <1>8, <1>11 DEF AnswerTo
<1> QED
  BY <1>1, <1>3, <1>4, <1>5, <1>6, <1>7, <1>8, <1>9, <1>10, <1>11

LEMMA CallIs ==
  ASSUME NEW call \in Call
  PROVE  call.query \in SUBSET Term /\ call.limit \in Nat \cup {NoLimit}
         /\ call.tool \in {"search", "related", "problem", "lesson", "outline"}
BY DEF Call

\* What a search answers.
SearchAnswer(of, call) ==
  LET a == SearchCorpus(of, call)
      h == Hits(of, call.query, call.book)
      n == Limited(call.limit, MaxResults)
  IN  /\ n \in Nat /\ n <= MaxResults
      /\ Len(a.ids) \in Nat /\ Len(a.ids) = AtMost(n, Len(h)) /\ Len(a.ids) <= n /\ DOMAIN a.ids = 1 .. Len(a.ids)
      /\ \A k \in 1 .. Len(a.ids) :
           k \in 1 .. Len(h) /\ h[k] \in Found(of, call.query, call.book) /\ h[k] \in DOMAIN of.chapters
             /\ a.ids[k] = ProblemId(of.chapters[h[k]])
      /\ a.shown = UNION {IndexedText(of, of.chapters[h[k]]) : k \in DOMAIN a.ids}

LEMMA SearchAnswers ==
  ASSUME NEW files, IsCorpus(files), NEW of, IsIndex(files, of), NEW call \in Call
  PROVE  SearchAnswer(of, call)
<1> DEFINE n == Limited(call.limit, MaxResults)
           r == Search(of, call.query, n, call.book)
           ids == [i \in DOMAIN r |-> ProblemId(r[i])]
           h == Hits(of, call.query, call.book)
<1>1. n \in Nat /\ n <= MaxResults
  BY CallIs, LimitedIs, ServerAssumption
<1>2. SearchCorpus(of, call).ids = ids
      /\ SearchCorpus(of, call).shown = UNION {IndexedText(of, r[i]) : i \in DOMAIN r}
  BY DEF SearchCorpus
<1> HIDE DEF n
<1>3. SearchOf(files, of, call.query, n, call.book)
  BY <1>1, CallIs, SearchIs
<1> HIDE DEF r, h
<1>4. /\ Len(r) \in Nat /\ Len(r) = AtMost(n, Len(h)) /\ Len(r) <= n
      /\ DOMAIN r = 1 .. Len(r)
      /\ \A k \in 1 .. Len(r) :
           k \in 1 .. Len(h) /\ h[k] \in Found(of, call.query, call.book) /\ h[k] \in DOMAIN of.chapters
             /\ r[k] = of.chapters[h[k]]
  BY <1>3 DEF SearchOf, r, h
<1>5. DOMAIN ids = 1 .. Len(r) /\ Len(ids) = Len(r) /\ \A k \in 1 .. Len(r) : ids[k] = ProblemId(r[k])
  <2>1. DOMAIN ids = 1 .. Len(r) /\ \A k \in 1 .. Len(r) : ids[k] = ProblemId(r[k])
    BY <1>4
  <2> HIDE DEF ids
  <2>3. Len(ids) = Len(r)
    BY <1>4, <2>1
  <2> QED
    BY <2>1, <2>3
<1> HIDE DEF ids
<1>6. SearchCorpus(of, call).shown = UNION {IndexedText(of, of.chapters[h[k]]) : k \in DOMAIN ids}
  BY <1>2, <1>4, <1>5
<1> QED
  BY <1>1, <1>2, <1>4, <1>5, <1>6 DEF SearchAnswer, n, h
-------------------------------------------------------------------------------
(***************************************************************************)
(* Neighbours.                                                             *)
(***************************************************************************)

\* What is left of a sequence of ids without one of them.
OthersOf(others, found, places, n) ==
  /\ Cardinality(places) \in Nat /\ Len(others) \in Nat /\ DOMAIN others = 1 .. Len(others)
  /\ Len(others) = AtMost(n, Cardinality(places)) /\ Len(others) <= n
  /\ \A k \in 1 .. Len(others) : \E p \in places : others[k] = found[p]

LEMMA OthersAre ==
  ASSUME NEW T, NEW found \in Seq(T), NEW places \in SUBSET (1 .. Len(found)), NEW n \in Nat,
         NEW others, others = FirstOf(Chosen(found, places), n)
  PROVE  OthersOf(others, found, places, n)
<1>1. PICK m \in Nat : m = Len(found)
  OBVIOUS
<1>2. \A p \in places : found[p] \in T
  BY <1>1
<1>3. PICK c : c = Chosen(found, places)
  OBVIOUS
<1>4. Takes(c, found, places, T)
  <2>1. places \in SUBSET (1 .. m)
    BY <1>1
  <2> QED
    BY <1>1, <1>2, <1>3, <2>1, ChosenIs
<1>5. /\ c \in Seq(T) /\ Len(c) = Cardinality(places) /\ Len(c) \in Nat /\ DOMAIN c = 1 .. Len(c)
      /\ {c[i] : i \in DOMAIN c} = {found[p] : p \in places}
  BY <1>4 DEF Takes
<1>6. /\ Len(others) \in Nat /\ Len(others) = AtMost(n, Len(c)) /\ Len(others) <= n
      /\ DOMAIN others = 1 .. Len(others)
      /\ \A k \in 1 .. Len(others) : others[k] = c[k] /\ k \in 1 .. Len(c)
  BY <1>3, <1>5, BeginningIs
<1>7. ASSUME NEW k \in 1 .. Len(others) PROVE \E p \in places : others[k] = found[p]
  <2>1. c[k] \in {c[i] : i \in DOMAIN c}
    BY <1>5, <1>6
  <2> QED
    BY <1>5, <1>6, <2>1
<1> QED
  BY <1>5, <1>6, <1>7 DEF OthersOf

IdsAreDistinct(of) == \A i, j \in DOMAIN of.chapters :
  ProblemId(of.chapters[i]) = ProblemId(of.chapters[j]) => i = j

\* What an answer shows is from the titles of the chapters it lists.
ShowsTitles(of, ids, shown) ==
  \A t \in shown : \E i \in DOMAIN of.chapters, k \in DOMAIN ids :
    t \in of.chapters[i].title /\ ids[k] = ProblemId(of.chapters[i])

LEMMA TitlesOfListed ==
  ASSUME NEW of, NEW seq, NEW ids, DOMAIN ids = DOMAIN seq,
         \A k \in DOMAIN seq : ids[k] = ProblemId(seq[k]) /\ \E i \in DOMAIN of.chapters : seq[k] = of.chapters[i]
  PROVE  ShowsTitles(of, ids, Titles(seq))
<1> SUFFICES ASSUME NEW k \in DOMAIN seq, NEW t \in seq[k].title
             PROVE  \E i \in DOMAIN of.chapters, l \in DOMAIN ids :
                      t \in of.chapters[i].title /\ ids[l] = ProblemId(of.chapters[i])
  BY DEF ShowsTitles, Titles
<1>1. PICK i \in DOMAIN of.chapters : seq[k] = of.chapters[i]
  OBVIOUS
<1>2. ids[k] = ProblemId(of.chapters[i]) /\ k \in DOMAIN ids /\ t \in of.chapters[i].title
  BY <1>1
<1> QED
  BY <1>2

RelatedAnswer(of, call) ==
  LET a == ListRelated(of, call)
      query == IndexedText(of, of.docs[call.id].meta)
      n == Limited(call.limit, MaxRelated)
      others == {i \in Found(of, query, AnyBook) : ProblemId(of.chapters[i]) # call.id}
  IN  /\ n \in Nat /\ n <= MaxRelated
      /\ Len(a.ids) \in Nat /\ Len(a.ids) <= n /\ DOMAIN a.ids = 1 .. Len(a.ids)
      /\ \A k \in 1 .. Len(a.ids) :
           a.ids[k] # call.id /\ \E i \in DOMAIN of.chapters : a.ids[k] = ProblemId(of.chapters[i])
      /\ ShowsTitles(of, a.ids, a.shown)
      /\ IdsAreDistinct(of) => Len(a.ids) = AtMost(n, Cardinality(others))

\* One more is searched for than is wanted, and at most one of them is the chapter itself.
LEMMA RelatedAnswers ==
  ASSUME NEW files, IsCorpus(files), NEW of, IsIndex(files, of), NEW call \in Call, Resolves(of, call.id)
  PROVE  RelatedAnswer(of, call)
<1> DEFINE query == IndexedText(of, of.docs[call.id].meta)
           n == Limited(call.limit, MaxRelated)
           r == Search(of, query, n + 1, AnyBook)
           h == Hits(of, query, AnyBook)
           P == {i \in DOMAIN r : ProblemId(r[i]) # call.id}
           o == FirstOf(Chosen(r, P), n)
           ids == [i \in DOMAIN o |-> ProblemId(o[i])]
           S == Found(of, query, AnyBook)
           O == {i \in S : ProblemId(of.chapters[i]) # call.id}
<1>1. n \in Nat /\ n <= MaxRelated
  BY CallIs, LimitedIs, ServerAssumption
<1>2. query \in SUBSET Term
  <2>1. call.id \in DOMAIN of.docs
    BY DEF Resolves
  <2>2. of.docs[call.id].meta \in ChaptersOf(files)
    BY <2>1, DocsAre
  <2> QED
    BY <2>2, IndexedTerms
<1>3. ListRelated(of, call).ids = ids /\ ListRelated(of, call).shown = Titles(o)
  BY DEF ListRelated
<1>4. S \in SUBSET (DOMAIN of.chapters)
  BY DEF Found
<1> HIDE DEF n, query
<1>5. SearchOf(files, of, query, n + 1, AnyBook)
  <2>1. n + 1 \in Nat
    BY <1>1
  <2> QED
    BY <1>2, <2>1, SearchIs
<1>6. HitsRank(of, query, AnyBook)
  BY <1>2, HitsAre
<1> HIDE DEF r, h, S
<1>7. /\ Len(r) \in Nat /\ Len(r) = AtMost(n + 1, Len(h)) /\ DOMAIN r = 1 .. Len(r) /\ r \in Seq(ChaptersOf(files))
      /\ Len(r) <= Len(h)
      /\ \A k \in 1 .. Len(r) :
           k \in 1 .. Len(h) /\ h[k] \in S /\ h[k] \in DOMAIN of.chapters /\ r[k] = of.chapters[h[k]]
  BY <1>5 DEF SearchOf, r, h, S
<1>8. /\ Cardinality(S) \in Nat /\ Len(h) = Cardinality(S) /\ h \in Seq(S)
      /\ \A i \in S : \E k \in 1 .. Len(h) : h[k] = i
      /\ \A k, l \in 1 .. Len(h) : k < l => h[k] # h[l]
  BY <1>6 DEF HitsRank, h, S
<1>9. P \in SUBSET (1 .. Len(r)) /\ \A p \in P : ProblemId(r[p]) # call.id
  BY <1>7
<1> HIDE DEF P
<1>10. /\ Cardinality(P) \in Nat /\ Len(o) \in Nat /\ DOMAIN o = 1 .. Len(o)
       /\ Len(o) = AtMost(n, Cardinality(P)) /\ Len(o) <= n
       /\ \A k \in 1 .. Len(o) : \E p \in P : o[k] = r[p]
  <2>1. PICK T, others : T = ChaptersOf(files) /\ others = o
    OBVIOUS
  <2>2. r \in Seq(T) /\ P \in SUBSET (1 .. Len(r)) /\ others = FirstOf(Chosen(r, P), n)
    BY <1>7, <1>9, <2>1
  <2> HIDE DEF o
  <2>3. OthersOf(others, r, P, n)
    BY <1>1, <2>2, OthersAre
  <2> QED
    BY <2>1, <2>3 DEF OthersOf
<1> HIDE DEF o
<1>11. DOMAIN ids = 1 .. Len(o) /\ \A k \in 1 .. Len(o) : ids[k] = ProblemId(o[k])
  BY <1>10
<1> HIDE DEF ids
<1>12. Len(ids) = Len(o)
  BY <1>10, <1>11
<1>13. ASSUME NEW k \in 1 .. Len(ids)
       PROVE  ids[k] # call.id /\ \E i \in DOMAIN of.chapters : ids[k] = ProblemId(of.chapters[i])
  <2>1. PICK p \in P : o[k] = r[p]
    BY <1>10, <1>12
  <2>2. ids[k] = ProblemId(r[p]) /\ ProblemId(r[p]) # call.id
    BY <1>9, <1>11, <1>12, <2>1
  <2>3. h[p] \in DOMAIN of.chapters /\ r[p] = of.chapters[h[p]]
    BY <1>7, <1>9
  <2> QED
    BY <2>2, <2>3
<1>14. ShowsTitles(of, ids, Titles(o))
  <2>1. ASSUME NEW k \in DOMAIN o PROVE ids[k] = ProblemId(o[k]) /\ \E i \in DOMAIN of.chapters : o[k] = of.chapters[i]
    <3>1. k \in 1 .. Len(o)
      BY <1>10, <2>1
    <3>2. PICK p \in P : o[k] = r[p]
      BY <1>10, <3>1
    <3>3. h[p] \in DOMAIN of.chapters /\ r[p] = of.chapters[h[p]]
      BY <1>7, <1>9
    <3> QED
      BY <1>11, <3>1, <3>2, <3>3
  <2>2. DOMAIN ids = DOMAIN o
    BY <1>10, <1>11
  <2> QED
    BY <2>1, <2>2, TitlesOfListed
<1>15. ASSUME IdsAreDistinct(of) PROVE Len(ids) = AtMost(n, Cardinality(O))
  <2> DEFINE D == {k \in 1 .. Len(r) : ProblemId(r[k]) = call.id}
             E == {i \in S : ProblemId(of.chapters[i]) = call.id}
             d == Cardinality(D)
             e == Cardinality(E)
  <2>1. \A i, j \in E : i = j
    BY <1>4, <1>15 DEF IdsAreDistinct, S
  <2>2. \A k \in D : h[k] \in E
    BY <1>7
  <2>3. \A k, l \in D : k = l
    <3> SUFFICES ASSUME NEW k \in D, NEW l \in D, k # l PROVE FALSE
      OBVIOUS
    <3>1. k \in 1 .. Len(h) /\ l \in 1 .. Len(h) /\ h[k] = h[l]
      BY <1>7, <2>1, <2>2
    <3>2. k < l \/ l < k
      BY <3>1
    <3> QED
      BY <1>8, <3>1, <3>2
  <2>4. Len(h) <= n + 1 => \A i \in E : \E k \in D : h[k] = i
    <3> SUFFICES ASSUME Len(h) <= n + 1, NEW i \in E PROVE \E k \in D : h[k] = i
      OBVIOUS
    <3>1. Len(r) = Len(h)
      BY <1>1, <1>7, <1>8 DEF AtMost
    <3>2. PICK k \in 1 .. Len(h) : h[k] = i
      BY <1>8
    <3>3. r[k] = of.chapters[i]
      BY <1>7, <3>1, <3>2
    <3> QED
      BY <3>1, <3>2, <3>3
  <2>5. P = (1 .. Len(r)) \ D
    BY <1>7 DEF P
  <2>6. O = S \ E
    OBVIOUS
  <2>7. IsFiniteSet(1 .. Len(r)) /\ Cardinality(1 .. Len(r)) = Len(r)
    BY <1>7, FS_Interval
  <2>8. IsFiniteSet(S)
    <3>1. S \in SUBSET (1 .. Len(of.chapters)) /\ Len(of.chapters) \in Nat
      BY <1>4, IndexIs DEF IndexServes, S
    <3>2. IsFiniteSet(1 .. Len(of.chapters))
      BY <3>1, FS_Interval
    <3> QED
      BY <3>1, <3>2, FS_Subset
  <2>9. D \in SUBSET (1 .. Len(r)) /\ E \in SUBSET S
    OBVIOUS
  <2> HIDE DEF D, E, O
  <2>10. ASSUME NEW X, NEW Y \in SUBSET X, IsFiniteSet(X), \A x, y \in Y : x = y
         PROVE  /\ Cardinality(Y) = IF Y = {} THEN 0 ELSE 1
                /\ Cardinality(X \ Y) = Cardinality(X) - Cardinality(Y)
                /\ Cardinality(Y) <= Cardinality(X) /\ Cardinality(X) \in Nat
    <3>1. CASE Y = {}
      <4>1. X \ Y = X /\ Cardinality(Y) = 0
        BY <3>1, FS_EmptySet
      <4>2. Cardinality(X) \in Nat
        BY <2>10, FS_CardinalityType
      <4> QED
        BY <3>1, <4>1, <4>2
    <3>2. CASE Y # {}
      <4>1. PICK y \in Y : TRUE
        BY <3>2
      <4>2. Y = {y} /\ y \in X
        BY <2>10, <4>1
      <4>3. Cardinality(X \ {y}) = Cardinality(X) - 1
        BY <2>10, <4>2, FS_RemoveElement
      <4>4. Cardinality({y}) = 1
        BY FS_Singleton
      <4>5. Cardinality(X) \in Nat
        BY <2>10, FS_CardinalityType
      <4>6. Cardinality(Y) <= Cardinality(X)
        BY <2>10, FS_Subset
      <4> QED
        BY <3>2, <4>2, <4>3, <4>4, <4>5, <4>6
    <3> QED
      BY <3>1, <3>2
  <2>11. /\ d = IF D = {} THEN 0 ELSE 1
         /\ Cardinality(P) = Len(r) - d /\ d <= Len(r)
    BY <2>3, <2>5, <2>7, <2>9, <2>10
  <2>12. /\ e = IF E = {} THEN 0 ELSE 1
         /\ Cardinality(O) = Cardinality(S) - e /\ e <= Cardinality(S)
    BY <2>1, <2>6, <2>8, <2>9, <2>10
  <2>13. d \in {0, 1} /\ e \in {0, 1} /\ d <= e /\ (Len(h) <= n + 1 => d = e)
    <3>1. D # {} => E # {}
      BY <2>2
    <3>2. Len(h) <= n + 1 => (E # {} => D # {})
      BY <2>4
    <3> HIDE DEF d, e
    <3> QED
      BY <2>11, <2>12, <3>1, <3>2
  <2> HIDE DEF d, e
  <2>14. AtMost(n, Len(r) - d) = AtMost(n, Len(h) - e)
    <3>1. PICK l, m : l = Len(r) /\ m = Len(h)
      OBVIOUS
    <3>2. l \in Nat /\ m \in Nat /\ l = AtMost(n + 1, m) /\ n \in Nat
      BY <1>1, <1>7, <1>8, <3>1
    <3>3. e <= m /\ d <= l /\ (m <= n + 1 => d = e) /\ d <= e /\ d \in {0, 1} /\ e \in {0, 1}
      BY <1>8, <2>11, <2>12, <2>13, <3>1
    <3>4. AtMost(n, l - d) = AtMost(n, m - e)
      BY <3>2, <3>3 DEF AtMost
    <3> QED
      BY <3>1, <3>4
  <2> QED
    BY <1>8, <1>10, <1>12, <2>11, <2>12, <2>14
<1> QED
  BY <1>1, <1>3, <1>10, <1>11, <1>12, <1>13, <1>14, <1>15 DEF RelatedAnswer, n, query, S
-------------------------------------------------------------------------------
(***************************************************************************)
(* The outline.                                                            *)
(***************************************************************************)

LEMMA SizesAreNumbers ==
  ASSUME NEW files, IsCorpus(files), NEW chapters \in Seq(ChaptersOf(files))
  PROVE  SizeOf(chapters) \in Nat /\ (chapters = <<>> => SizeOf(chapters) = 0)
<1> DEFINE D == DOMAIN chapters
           X(i) == {i} \X (1 .. chapters[i].file.size)
           F == {X(i) : i \in D}
           g == [i \in D |-> X(i)]
<1>1. IsFiniteSet(D)
  <2>1. PICK n \in Nat : D = 1 .. n
    OBVIOUS
  <2> QED
    BY <2>1, FS_Interval
<1>2. ASSUME NEW i \in D PROVE IsFiniteSet(X(i))
  <2>1. chapters[i] \in ChaptersOf(files)
    OBVIOUS
  <2>2. chapters[i].file.size \in Nat
    BY <2>1, ChapterLeaf DEF IsCorpus, File
  <2>3. IsFiniteSet(1 .. chapters[i].file.size)
    BY <2>2, FS_Interval
  <2>4. IsFiniteSet({i})
    BY FS_Singleton
  <2> QED
    BY <2>3, <2>4, FS_Product
<1>3. g \in Surjection(D, F)
  BY DEF Surjection
<1>4. IsFiniteSet(F)
  BY <1>1, <1>3, FS_Surjection
<1>5. IsFiniteSet(UNION F)
  BY <1>2, <1>4, FS_UNION
<1>6. SizeOf(chapters) = Cardinality(UNION F)
  BY DEF SizeOf
<1>7. ASSUME chapters = <<>> PROVE Cardinality(UNION F) = 0
  <2>1. UNION F = {}
    BY <1>7
  <2> QED
    BY <2>1, FS_EmptySet
<1> QED
  BY <1>5, <1>6, <1>7, FS_CardinalityType

OutlineAnswer(of, call) ==
  LET a == GetOutline(of, call)
      all == InBook(of, call.book)
      n == Len(a.ids)
  IN  /\ n \in Nat /\ DOMAIN a.ids = 1 .. n /\ Len(all) \in Nat /\ n <= Len(all)
      /\ \A k \in 1 .. n : a.ids[k] = ProblemId(all[k]) /\ \E i \in DOMAIN of.chapters : all[k] = of.chapters[i]
      /\ ShowsTitles(of, a.ids, a.shown)
      /\ SizeOf(FirstOf(all, n)) <= MaxOutline
      /\ a.truncated = (n < Len(all))
      /\ n < Len(all) => SizeOf(FirstOf(all, n + 1)) > MaxOutline

LEMMA OutlineAnswers ==
  ASSUME NEW files, IsCorpus(files), NEW of, IsIndex(files, of), NEW call \in Call
  PROVE  OutlineAnswer(of, call)
<1> DEFINE c == of.chapters
           P == {i \in DOMAIN c : call.book = AnyBook \/ c[i].book = call.book}
           all == InBook(of, call.book)
           N == Len(all)
           Overruns == {i \in DOMAIN all : SizeOf(FirstOf(all, i)) > MaxOutline}
           least == CHOOSE i \in Overruns : \A j \in Overruns : i <= j
           listed == IF Overruns = {} THEN all ELSE FirstOf(all, least - 1)
           ids == [i \in DOMAIN listed |-> ProblemId(listed[i])]
           a == GetOutline(of, call)
           Ch == ChaptersOf(files)
<1>1. Len(c) \in Nat /\ DOMAIN c = 1 .. Len(c) /\ \A i \in DOMAIN c : c[i] \in Ch
  BY IndexIs DEF IndexServes
<1>2. a.ids = ids /\ a.truncated = (Overruns # {}) /\ a.shown = Titles(listed)
  BY DEF GetOutline
<1>3. all = Chosen(c, P)
  BY DEF InBook
<1>4. P \in SUBSET (1 .. Len(c)) /\ \A p \in P : c[p] \in Ch
  BY <1>1
<1> HIDE DEF P, all, Ch
<1>5. Takes(all, c, P, Ch)
  BY <1>1, <1>3, <1>4, ChosenIs
<1>6. /\ all \in Seq(Ch) /\ N \in Nat /\ DOMAIN all = 1 .. N
      /\ \A k \in 1 .. N : \E i \in DOMAIN c : all[k] = c[i]
  <2>1. all \in Seq(Ch) /\ N \in Nat /\ DOMAIN all = 1 .. N /\ {all[k] : k \in DOMAIN all} = {c[p] : p \in P}
    BY <1>5 DEF Takes
  <2>2. ASSUME NEW k \in 1 .. N PROVE \E i \in DOMAIN c : all[k] = c[i]
    <3>1. all[k] \in {c[p] : p \in P}
      BY <2>1
    <3> QED
      BY <1>1, <1>4, <3>1
  <2> QED
    BY <2>1, <2>2
<1>7. ASSUME NEW m \in Nat, m <= N
      PROVE  /\ FirstOf(all, m) \in Seq(Ch) /\ Len(FirstOf(all, m)) = m /\ DOMAIN FirstOf(all, m) = 1 .. m
             /\ \A k \in 1 .. m : FirstOf(all, m)[k] = all[k] /\ k \in 1 .. N
             /\ SizeOf(FirstOf(all, m)) \in Nat
             /\ m \notin Overruns => SizeOf(FirstOf(all, m)) <= MaxOutline
  <2>1. PICK b : b = FirstOf(all, m)
    OBVIOUS
  <2>2. /\ b \in Seq(Ch) /\ Len(b) = AtMost(m, N) /\ DOMAIN b = 1 .. Len(b)
        /\ \A k \in 1 .. Len(b) : b[k] = all[k] /\ k \in 1 .. N
    BY <1>6, <2>1, BeginningIs
  <2>3. AtMost(m, N) = m
    <3>1. N \in Nat
      BY <1>6
    <3>2. m <= N
      BY <1>7
    <3> QED
      BY <3>1, <3>2 DEF AtMost
  <2>4. SizeOf(b) \in Nat /\ (b = <<>> => SizeOf(b) = 0)
    BY <2>2, SizesAreNumbers DEF Ch
  <2>5. MaxOutline \in Nat
    BY ServerAssumption
  <2>6. ASSUME m \notin Overruns PROVE SizeOf(b) <= MaxOutline
    <3>1. CASE m = 0
      <4>1. b = <<>>
        BY <2>2, <2>3, <3>1
      <4>2. SizeOf(b) = 0
        BY <2>4, <4>1
      <4> QED
        BY <2>5, <4>2
    <3>2. CASE m # 0
      <4>1. m \in DOMAIN all
        BY <1>6, <1>7, <3>2
      <4>2. ~ SizeOf(b) > MaxOutline
        BY <2>1, <2>6, <4>1
      <4> QED
        BY <2>4, <2>5, <4>2
    <3> QED
      BY <3>1, <3>2
  <2> QED
    BY <2>1, <2>2, <2>3, <2>4, <2>6
<1>8. Overruns \in SUBSET (1 .. N) /\ \A i \in Overruns : SizeOf(FirstOf(all, i)) > MaxOutline
  BY <1>6
<1> HIDE DEF Overruns
<1>9. CASE Overruns = {}
  <2>1. listed = all
    BY <1>9
  <2>2. DOMAIN ids = 1 .. N /\ \A k \in 1 .. N : ids[k] = ProblemId(all[k])
    BY <1>6, <2>1
  <2>3. ShowsTitles(of, ids, Titles(listed))
    <3>1. DOMAIN ids = DOMAIN listed
      OBVIOUS
    <3>2. \A k \in DOMAIN listed : ids[k] = ProblemId(listed[k]) /\ \E i \in DOMAIN c : listed[k] = c[i]
      BY <1>6, <2>1, <2>2
    <3> HIDE DEF ids, listed
    <3> QED
      BY <3>1, <3>2, TitlesOfListed
  <2> HIDE DEF ids, listed
  <2>4. Len(ids) = N
    BY <1>6, <2>2
  <2>5. N \notin Overruns /\ N <= N
    BY <1>6, <1>9
  <2>6. SizeOf(FirstOf(all, N)) <= MaxOutline
    BY <1>6, <1>7, <2>5
  <2>7. a.truncated = FALSE /\ (N < N) = FALSE
    <3>1. (Overruns # {}) = FALSE
      BY <1>9
    <3>2. a.truncated = FALSE
      BY <1>2, <3>1
    <3>3. (N < N) = FALSE
      BY <1>6
    <3> QED
      BY <3>2, <3>3
  <2> QED
    BY <1>2, <1>6, <2>2, <2>3, <2>4, <2>5, <2>6, <2>7 DEF OutlineAnswer, all, c
<1>10. CASE Overruns # {}
  <2>1. Overruns \in SUBSET Nat
    BY <1>6, <1>8
  <2>2. PICK o \in Overruns : \A j \in Overruns : o <= j
    BY <1>10, <2>1, LeastOf
  <2>3. least \in Overruns /\ \A j \in Overruns : least <= j
    BY <2>2
  <2> HIDE DEF least
  <2>4. PICK m \in Nat : least = m + 1
    <3>1. least - 1 \in Nat /\ least = (least - 1) + 1
      BY <1>6, <1>8, <2>3
    <3> QED
      BY <3>1
  <2>5. m + 1 \in 1 .. N /\ m <= N /\ m < N /\ least - 1 = m
    BY <1>6, <1>8, <2>3, <2>4
  <2>6. m \notin Overruns
    BY <2>3, <2>4
  <2>7. /\ FirstOf(all, m) \in Seq(Ch) /\ DOMAIN FirstOf(all, m) = 1 .. m
        /\ \A k \in 1 .. m : FirstOf(all, m)[k] = all[k] /\ k \in 1 .. N
        /\ SizeOf(FirstOf(all, m)) <= MaxOutline
    BY <1>7, <2>4, <2>5, <2>6
  <2>8. listed = FirstOf(all, m)
    BY <1>10, <2>5
  <2>9. DOMAIN ids = 1 .. m /\ \A k \in 1 .. m : ids[k] = ProblemId(all[k])
    BY <2>7, <2>8
  <2>10. ShowsTitles(of, ids, Titles(listed))
    <3>1. DOMAIN ids = DOMAIN listed
      OBVIOUS
    <3>2. \A k \in DOMAIN listed : ids[k] = ProblemId(listed[k]) /\ \E i \in DOMAIN c : listed[k] = c[i]
      BY <1>6, <2>7, <2>8, <2>9
    <3> HIDE DEF ids, listed
    <3> QED
      BY <3>1, <3>2, TitlesOfListed
  <2> HIDE DEF ids, listed
  <2>11. Len(ids) = m
    BY <2>4, <2>9
  <2>12. a.truncated = TRUE /\ (m < N) = TRUE
    BY <1>2, <1>10, <2>5
  <2>13. SizeOf(FirstOf(all, m + 1)) > MaxOutline
    BY <1>8, <2>3, <2>4
  <2> QED
    BY <1>2, <1>6, <2>4, <2>5, <2>7, <2>9, <2>10, <2>11, <2>12, <2>13 DEF OutlineAnswer, all, c
<1> QED
  BY <1>9, <1>10
-------------------------------------------------------------------------------
(***************************************************************************)
(* The properties of the server.                                           *)
(***************************************************************************)

\* Whatever is listed is a chapter of the index.
LEMMA ListedAreChapters ==
  ASSUME ServerInv, Answered({"search", "related", "outline"}), NEW k \in DOMAIN said.answer.ids
  PROVE  \E i \in DOMAIN index.chapters : said.answer.ids[k] = ProblemId(index.chapters[i])
<1>1. /\ IsCorpus(content) /\ IsIndex(content, index) /\ said.call \in Call
      /\ said.call.tool \in {"search", "related", "outline"}
      /\ said.call.tool = "search" => said.answer = SearchCorpus(index, said.call)
      /\ said.call.tool = "outline" => said.answer = GetOutline(index, said.call)
      /\ said.call.tool \in {"related", "problem", "lesson"} => Resolves(index, said.call.id)
      /\ said.call.tool = "related" => said.answer = ListRelated(index, said.call)
  BY AnswerIs DEF Answered
<1>2. CASE said.call.tool = "search"
  <2>1. SearchAnswer(index, said.call) /\ said.answer = SearchCorpus(index, said.call)
    BY <1>1, <1>2, SearchAnswers
  <2> QED
    BY <2>1 DEF SearchAnswer
<1>3. CASE said.call.tool = "related"
  <2>1. RelatedAnswer(index, said.call) /\ said.answer = ListRelated(index, said.call)
    BY <1>1, <1>3, RelatedAnswers
  <2> QED
    BY <2>1 DEF RelatedAnswer
<1>4. CASE said.call.tool = "outline"
  <2>1. OutlineAnswer(index, said.call) /\ said.answer = GetOutline(index, said.call)
    BY <1>1, <1>4, OutlineAnswers
  <2> QED
    BY <2>1 DEF OutlineAnswer
<1> QED
  BY <1>1, <1>2, <1>3, <1>4

LEMMA ListedResolve == ServerInv => ResolvesUnlessMangled
<1> SUFFICES ASSUME ServerInv, Answered({"search", "related", "outline"}), NEW k \in DOMAIN said.answer.ids,
                    NEW id, id = said.answer.ids[k]
             PROVE  \E file \in content :
                      /\ IsChapter(file) /\ ProblemId(MetaOf(file)) = id
                      /\ Resolves(index, id) <=> Spelled(file.path)
                      /\ Resolves(index, id) => ProblemId(index.docs[id].meta) = id
  BY DEF ResolvesUnlessMangled
<1>1. IsCorpus(content) /\ IsIndex(content, index)
  BY AnswerIs DEF Answered
<1>2. PICK i \in DOMAIN index.chapters : id = ProblemId(index.chapters[i])
  BY ListedAreChapters
<1>3. PICK meta : meta = index.chapters[i]
  OBVIOUS
<1>4. meta \in ChaptersOf(content) /\ id = ProblemId(meta) /\ id \in DOMAIN index.docs
  BY <1>1, <1>2, <1>3, IndexIs DEF IndexServes
<1>5. meta.file \in content /\ IsChapter(meta.file) /\ meta = MetaOf(meta.file)
  BY <1>1, <1>4, ChapterLeaf
<1>6. /\ id[2] # <<>> /\ \A j \in DOMAIN id[2] : id[2][j] # ""
      /\ (\A j \in DOMAIN id[2] : id[2][j] \in SlugLike) <=> Spelled(meta.file.path)
  BY <1>1, <1>4, ChapterIds
<1>7. Resolves(index, id) <=> Spelled(meta.file.path)
  BY <1>4, <1>6 DEF Resolves
<1>8. ProblemId(index.docs[id].meta) = id
  BY <1>1, <1>4, DocsAre
<1> QED
  BY <1>4, <1>5, <1>7, <1>8

LEMMA ServerTyped == ServerInv => ServerTypeOK
<1> SUFFICES ASSUME ServerInv PROVE ServerTypeOK
  OBVIOUS
<1>1. /\ IsCorpus(content)
      /\ walk # NoWalk => index = NoIndex /\ WalkOK(content, walk.todo, walk.found)
      /\ index # NoIndex => index = CorpusIndex(index.chapters) /\ WalkOK(content, <<>>, index.chapters)
      /\ said # NothingSaid => said.call \in Calls
  BY DEF ServerInv
<1>2. ASSUME NEW found, found \in Seq(ChaptersOf(content)) PROVE \A i \in DOMAIN found : found[i].file \in content
  <2>1. \A i \in DOMAIN found : found[i] \in ChaptersOf(content)
    BY <1>2
  <2> QED
    BY <1>1, <2>1, ChapterLeaf
<1>3. walk # NoWalk => \A i \in DOMAIN walk.found : walk.found[i].file \in content
  BY <1>1, <1>2 DEF WalkOK
<1>4. ASSUME index # NoIndex
      PROVE  /\ \A i \in DOMAIN index.chapters : index.chapters[i].file \in content
             /\ \A id \in DOMAIN index.docs : ProblemId(index.docs[id].meta) = id
  <2>1. IsIndex(content, index)
    BY <1>1, <1>4 DEF IsIndex, WalkOK
  <2>2. index.chapters \in Seq(ChaptersOf(content))
    BY <2>1 DEF IsIndex
  <2> QED
    BY <1>1, <1>2, <2>1, <2>2, DocsAre
<1>5. ASSUME Answered({"search"}) PROVE Len(said.answer.ids) <= MaxResults
  <2>1. said # NothingSaid /\ said.call.tool = "search" /\ "ids" \in DOMAIN said.answer
    BY <1>5 DEF Answered
  <2>2. /\ IsCorpus(content) /\ IsIndex(content, index) /\ said.call \in Call
        /\ said.answer = SearchCorpus(index, said.call)
    BY <2>1, AnswerIs
  <2>3. SearchAnswer(index, said.call)
    BY <2>2, SearchAnswers
  <2>4. PICK n, l : /\ n = Limited(said.call.limit, MaxResults)
                    /\ l = Len(SearchCorpus(index, said.call).ids)
    OBVIOUS
  <2>5. n \in Nat /\ n <= MaxResults /\ l \in Nat /\ l <= n
    BY <2>3, <2>4 DEF SearchAnswer
  <2>6. l <= MaxResults
    BY <2>5, ServerAssumption
  <2> QED
    BY <2>2, <2>4, <2>6
<1>6. ASSUME Answered({"related"}) PROVE Len(said.answer.ids) <= MaxRelated
  <2>1. said # NothingSaid /\ said.call.tool = "related" /\ "ids" \in DOMAIN said.answer
    BY <1>6 DEF Answered
  <2>2. /\ IsCorpus(content) /\ IsIndex(content, index) /\ said.call \in Call
        /\ said.answer = ListRelated(index, said.call) /\ Resolves(index, said.call.id)
    BY <2>1, AnswerIs
  <2>3. RelatedAnswer(index, said.call)
    BY <2>2, RelatedAnswers
  <2>4. PICK n, l : /\ n = Limited(said.call.limit, MaxRelated)
                    /\ l = Len(ListRelated(index, said.call).ids)
    OBVIOUS
  <2>5. n \in Nat /\ n <= MaxRelated /\ l \in Nat /\ l <= n
    BY <2>3, <2>4 DEF RelatedAnswer
  <2>6. l <= MaxRelated
    BY <2>5, ServerAssumption
  <2> QED
    BY <2>2, <2>4, <2>6
<1>7. content \subseteq File
  BY <1>1 DEF IsCorpus
<1> QED
  BY <1>1, <1>3, <1>4, <1>5, <1>6, <1>7 DEF ServerTypeOK

LEMMA OutlineBegins == ServerInv => OutlineIsBeginning
<1> SUFFICES ASSUME ServerInv, Answered({"outline"}) PROVE OutlineIsBeginning
  BY DEF OutlineIsBeginning
<1>1. said # NothingSaid /\ said.call.tool = "outline" /\ "ids" \in DOMAIN said.answer
  BY DEF Answered
<1>2. /\ IsCorpus(content) /\ IsIndex(content, index) /\ said.call \in Call
      /\ said.answer = GetOutline(index, said.call)
  BY <1>1, AnswerIs
<1>3. OutlineAnswer(index, said.call)
  BY <1>2, OutlineAnswers
<1> QED
  BY <1>2, <1>3 DEF OutlineAnswer, OutlineIsBeginning

LEMMA OutlineFollows == ServerInv => OutlineFollowsSidebar
<1> SUFFICES ASSUME ServerInv PROVE SidebarOrder /\ OutlineIsBeginning
  BY DEF OutlineFollowsSidebar
<1>1. IsCorpus(content) /\ (index # NoIndex => WalkOK(content, <<>>, index.chapters))
  BY DEF ServerInv
<1> QED
  BY <1>1, WalkFinishes, OutlineBegins
\* The document of an id: the chapter's text, split.
LEMMA BodySplit ==
  ASSUME ServerInv, index # NoIndex, IsIndex(content, index), NEW id \in DOMAIN index.docs
  PROVE  /\ BodyOf(id) \in Seq(Block)
         /\ index.docs[id].split = Split(BodyOf(id))
         /\ Parted(BodyOf(id), index.docs[id].split)
         /\ Flat(BodyOf(id)) => TermsOf(index.docs[id].split.visible) = Outside(BodyOf(id))
<1>1. IsCorpus(content)
  BY DEF ServerInv
<1>2. PICK body : body = BodyOf(id)
  OBVIOUS
<1>3. index.docs[id].meta \in ChaptersOf(content) /\ index.docs[id].split = Split(body)
  BY <1>1, <1>2, DocsAre DEF BodyOf
<1>4. body \in Seq(Block)
  <2>1. index.docs[id].meta.file \in File
    BY <1>1, <1>3, ChapterLeaf DEF IsCorpus
  <2> QED
    BY <1>2, <2>1 DEF BodyOf, File
<1>5. Parted(body, Split(body)) /\ (Flat(body) => TermsOf(Split(body).visible) = Outside(body))
  BY <1>4, SplitParts, VisibleIsOutside
<1> QED
  BY <1>2, <1>3, <1>4, <1>5

\* What the cap leaves.
LEMMA CapIs ==
  ASSUME NEW text \in Seq(Term)
  PROVE  Cap(text) \subseteq TermsOf(text) /\ (Len(text) <= MaxBody => Cap(text) = TermsOf(text))
<1>1. PICK b : b = FirstOf(text, MaxBody)
  OBVIOUS
<1>2. MaxBody \in Nat
  BY ServerAssumption
<1>3. /\ Len(b) = AtMost(MaxBody, Len(text)) /\ DOMAIN b = 1 .. Len(b) /\ DOMAIN text = 1 .. Len(text)
      /\ Len(text) \in Nat /\ \A i \in 1 .. Len(b) : b[i] = text[i] /\ i \in 1 .. Len(text)
  BY <1>1, <1>2, BeginningIs
<1>4. Cap(text) = {b[i] : i \in 1 .. Len(b)} /\ TermsOf(text) = {text[i] : i \in 1 .. Len(text)}
  BY <1>1, <1>3 DEF Cap, TermsOf
<1>5. Len(text) <= MaxBody => Len(b) = Len(text)
  BY <1>2, <1>3 DEF AtMost
<1> QED
  BY <1>3, <1>4, <1>5

\* What get_problem and get_lesson answer.
LEMMA TextShown ==
  ASSUME ServerInv, Answered({"problem", "lesson"}), NEW id, id = said.call.id, NEW doc, doc = index.docs[id]
  PROVE  /\ index # NoIndex /\ IsIndex(content, index) /\ id \in DOMAIN index.docs
         /\ said.answer.ids = <<id>>
         /\ \/ said.answer.shown = Presented(doc)
               /\ (said.call.tool = "lesson" => ~ said.call.include_solution)
            \/ /\ said.answer.shown = Presented(doc) \cup Cap(doc.split.solution)
               /\ said.call.tool = "lesson" /\ said.call.include_solution
<1>1. /\ index # NoIndex /\ IsIndex(content, index)
      /\ said.call.tool \in {"problem", "lesson"} /\ Resolves(index, said.call.id)
      /\ said.call.tool = "problem" => said.answer = GetProblem(index, said.call)
      /\ said.call.tool = "lesson" => said.answer = GetLesson(index, said.call)
  BY AnswerIs DEF Answered
<1>2. id \in DOMAIN index.docs
  BY <1>1 DEF Resolves
<1>3. CASE said.call.tool = "problem"
  <2>1. said.answer = GetProblem(index, said.call)
    BY <1>1, <1>3
  <2>2. said.answer.ids = <<id>> /\ said.answer.shown = Presented(doc)
    BY <2>1 DEF GetProblem
  <2> QED
    BY <1>1, <1>2, <1>3, <2>2
<1>4. CASE said.call.tool = "lesson"
  <2>1. said.answer = GetLesson(index, said.call)
    BY <1>1, <1>4
  <2>2. /\ said.answer.ids = <<id>>
        /\ said.answer.shown = Presented(doc)
             \cup IF said.call.include_solution THEN Cap(doc.split.solution) ELSE {}
    BY <2>1 DEF GetLesson
  <2>3. CASE said.call.include_solution
    BY <1>1, <1>2, <1>4, <2>2, <2>3
  <2>4. CASE ~ said.call.include_solution
    <3>1. said.answer.shown = Presented(doc)
      BY <2>2, <2>4
    <3> QED
      BY <1>1, <1>2, <1>4, <2>2, <2>4, <3>1
  <2> QED
    BY <2>3, <2>4
<1> QED
  BY <1>1, <1>3, <1>4

\* A title is public: of the front matter, of the name, or a heading.
LEMMA TitleIsPublic ==
  ASSUME NEW file
  PROVE  TitleOf(file) \subseteq Public(file) /\ file.summary \subseteq Public(file)
         /\ Outside(file.body) \subseteq Public(file)
BY DEF TitleOf, Public

\* What the answer is about is among the files listed.
LEMMA AboutListed ==
  ASSUME NEW i \in DOMAIN index.chapters, NEW k \in DOMAIN said.answer.ids,
         said.answer.ids[k] = ProblemId(index.chapters[i])
  PROVE  index.chapters[i].file \in Listed
BY DEF Listed

\* What a search shows of a listed chapter is public, of flat files.
LEMMA SearchedIsPublic ==
  ASSUME ServerInv, index # NoIndex, IsIndex(content, index),
         \A file \in Listed : Flat(file.body),
         NEW i \in DOMAIN index.chapters, NEW k \in DOMAIN said.answer.ids,
         said.answer.ids[k] = ProblemId(index.chapters[i])
  PROVE  IndexedText(index, index.chapters[i]) \subseteq UNION {Public(file) : file \in Listed}
<1>1. IsCorpus(content)
  BY DEF ServerInv
<1>2. PICK meta, id : meta = index.chapters[i] /\ id = ProblemId(meta)
  OBVIOUS
<1>3. meta \in ChaptersOf(content) /\ id \in DOMAIN index.docs
  BY <1>1, <1>2, IndexIs DEF IndexServes
<1>4. meta.file \in Listed /\ meta.title \subseteq Public(meta.file)
  BY <1>1, <1>2, <1>3, AboutListed, TitleIs, TitleIsPublic
<1>5. PICK j \in DOMAIN index.chapters : index.docs[id].meta = index.chapters[j]
  BY <1>1, <1>3, DocsAre
<1>6. ProblemId(index.chapters[j]) = id
  BY <1>1, <1>3, <1>5, DocsAre
<1>7. index.docs[id].meta.file \in Listed
  BY <1>2, <1>5, <1>6, AboutListed
<1>8. TermsOf(index.docs[id].split.visible) = Outside(index.docs[id].meta.file.body)
  BY <1>3, <1>7, BodySplit DEF BodyOf
<1>9. TermsOf(index.docs[id].split.visible) \subseteq Public(index.docs[id].meta.file)
  BY <1>8, TitleIsPublic
<1> QED
  BY <1>2, <1>4, <1>7, <1>9 DEF IndexedText

LEMMA SolutionsWithheld == ServerInv => Withheld
<1> SUFFICES ASSUME ServerInv, Answered({"search", "related", "problem", "lesson", "outline"}),
                    ~ said.call.include_solution, \A file \in Listed : Flat(file.body)
             PROVE  said.answer.shown \subseteq UNION {Public(file) : file \in Listed}
  BY DEF Withheld
<1>1. /\ said.call.tool \in {"search", "related", "problem", "lesson", "outline"}
      /\ said # NothingSaid /\ "ids" \in DOMAIN said.answer
  BY DEF Answered
<1>2. index # NoIndex /\ IsCorpus(content) /\ IsIndex(content, index) /\ said.call \in Call
  BY <1>1, AnswerIs
<1>3. CASE said.call.tool = "search"
  <2>1. said.answer = SearchCorpus(index, said.call) /\ SearchAnswer(index, said.call)
    BY <1>1, <1>2, <1>3, AnswerIs, SearchAnswers
  <2>2. PICK h, ids : h = Hits(index, said.call.query, said.call.book) /\ ids = said.answer.ids
    OBVIOUS
  <2>3. /\ DOMAIN ids = 1 .. Len(ids)
        /\ \A k \in 1 .. Len(ids) : h[k] \in DOMAIN index.chapters /\ ids[k] = ProblemId(index.chapters[h[k]])
        /\ said.answer.shown = UNION {IndexedText(index, index.chapters[h[k]]) : k \in DOMAIN ids}
    BY <2>1, <2>2 DEF SearchAnswer
  <2>4. ASSUME NEW k \in DOMAIN ids
        PROVE  IndexedText(index, index.chapters[h[k]]) \subseteq UNION {Public(file) : file \in Listed}
    BY <1>2, <2>2, <2>3, <2>4, SearchedIsPublic
  <2> QED
    BY <2>3, <2>4
<1>4. CASE said.call.tool \in {"problem", "lesson"}
  <2>1. Answered({"problem", "lesson"})
    BY <1>1, <1>4 DEF Answered
  <2>2. PICK id, doc, file : id = said.call.id /\ doc = index.docs[id] /\ file = doc.meta.file
    OBVIOUS
  <2>3. id \in DOMAIN index.docs /\ said.answer.ids = <<id>> /\ said.answer.shown = Presented(doc)
    BY <2>1, <2>2, TextShown
  <2>4. PICK i \in DOMAIN index.chapters : doc.meta = index.chapters[i]
    BY <1>2, <2>2, <2>3, DocsAre
  <2>5. ProblemId(index.chapters[i]) = id /\ doc.meta \in ChaptersOf(content)
    BY <1>2, <2>2, <2>3, <2>4, DocsAre
  <2>6. DOMAIN said.answer.ids = {1} /\ said.answer.ids[1] = id
    BY <2>3
  <2>7. file \in Listed
    BY <2>2, <2>4, <2>5, <2>6, AboutListed
  <2>8. TermsOf(doc.split.visible) = Outside(file.body) /\ doc.split.visible \in Seq(Term)
    BY <1>2, <2>2, <2>3, <2>7, BodySplit DEF Parted, BodyOf
  <2>9. Cap(doc.split.visible) \subseteq Public(file)
    BY <2>8, CapIs, TitleIsPublic
  <2>10. doc.meta.title \subseteq Public(file) /\ doc.meta.file.summary \subseteq Public(file)
    BY <1>2, <2>2, <2>5, TitleIs, TitleIsPublic
  <2> QED
    BY <2>3, <2>7, <2>9, <2>10 DEF Presented
<1>5. CASE said.call.tool \in {"related", "outline"}
  <2>1. ShowsTitles(index, said.answer.ids, said.answer.shown)
    <3>1. CASE said.call.tool = "related"
      <4>1. said.answer = ListRelated(index, said.call) /\ Resolves(index, said.call.id)
        BY <1>1, <3>1, AnswerIs
      <4>2. RelatedAnswer(index, said.call)
        BY <1>2, <4>1, RelatedAnswers
      <4> QED
        BY <4>1, <4>2 DEF RelatedAnswer
    <3>2. CASE said.call.tool = "outline"
      <4>1. said.answer = GetOutline(index, said.call)
        BY <1>1, <3>2, AnswerIs
      <4>2. OutlineAnswer(index, said.call)
        BY <1>2, OutlineAnswers
      <4> QED
        BY <4>1, <4>2 DEF OutlineAnswer
    <3> QED
      BY <1>5, <3>1, <3>2
  <2>2. ASSUME NEW t \in said.answer.shown PROVE t \in UNION {Public(file) : file \in Listed}
    <3>1. PICK i \in DOMAIN index.chapters, k \in DOMAIN said.answer.ids :
            t \in index.chapters[i].title /\ said.answer.ids[k] = ProblemId(index.chapters[i])
      BY <2>1, <2>2 DEF ShowsTitles
    <3>2. PICK meta : meta = index.chapters[i]
      OBVIOUS
    <3>3. meta \in ChaptersOf(content)
      BY <1>2, <3>2, IndexIs DEF IndexServes
    <3>4. t \in Public(meta.file) /\ meta.file \in Listed
      BY <1>2, <3>1, <3>2, <3>3, AboutListed, TitleIs, TitleIsPublic
    <3> QED
      BY <3>4
  <2> QED
    BY <2>2
<1> QED
  BY <1>1, <1>3, <1>4, <1>5

LEMMA RestIsShown == ServerInv => NothingElseHidden
<1> SUFFICES ASSUME ServerInv, Answered({"problem", "lesson"}),
                    Cardinality(Terms(BodyOf(said.call.id))) <= MaxBody
             PROVE  /\ Flat(BodyOf(said.call.id)) => Outside(BodyOf(said.call.id)) \subseteq said.answer.shown
                    /\ said.call.tool = "lesson" /\ said.call.include_solution =>
                         {BodyOf(said.call.id)[k] : k \in Terms(BodyOf(said.call.id))} \subseteq said.answer.shown
  BY DEF NothingElseHidden, Terms
<1>1. PICK id, doc, split, body :
        id = said.call.id /\ doc = index.docs[id] /\ split = doc.split /\ body = BodyOf(id)
  OBVIOUS
<1>2. /\ index # NoIndex /\ IsIndex(content, index) /\ id \in DOMAIN index.docs
      /\ \/ said.answer.shown = Presented(doc)
            /\ (said.call.tool = "lesson" => ~ said.call.include_solution)
         \/ /\ said.answer.shown = Presented(doc) \cup Cap(split.solution)
            /\ said.call.tool = "lesson" /\ said.call.include_solution
  BY <1>1, TextShown
<1>3. /\ Parted(body, split)
      /\ Flat(body) => TermsOf(split.visible) = Outside(body)
  BY <1>1, <1>2, BodySplit
<1>4. MaxBody \in Nat /\ Cardinality(Terms(body)) <= MaxBody
  BY <1>1, ServerAssumption
<1>5. /\ split.visible \in Seq(Term) /\ split.solution \in Seq(Term)
      /\ Len(split.visible) <= Cardinality(Terms(body)) /\ Len(split.solution) <= Cardinality(Terms(body))
      /\ Cardinality(Terms(body)) \in Nat
  BY <1>3 DEF Parted
<1>6. Len(split.visible) <= MaxBody /\ Len(split.solution) <= MaxBody
  <2>1. \A s \in Seq(Term) : Len(s) \in Nat
    OBVIOUS
  <2>2. Len(split.visible) \in Nat /\ Len(split.solution) \in Nat
    BY <1>5, <2>1
  <2> QED
    BY <1>4, <1>5, <2>2
<1>7. Cap(split.visible) = TermsOf(split.visible) /\ Cap(split.solution) = TermsOf(split.solution)
  BY <1>5, <1>6, CapIs
<1>8. TermsOf(split.visible) \cup TermsOf(split.solution) = {body[k] : k \in Terms(body)}
  BY <1>3 DEF Parted
<1>9. Cap(split.visible) \subseteq Presented(doc)
  BY <1>1 DEF Presented
<1>10. Flat(body) => Outside(body) \subseteq said.answer.shown
  BY <1>2, <1>3, <1>7, <1>9
<1>11. said.call.tool = "lesson" /\ said.call.include_solution =>
         {body[k] : k \in Terms(body)} \subseteq said.answer.shown
  BY <1>2, <1>7, <1>8, <1>9
<1> QED
  BY <1>1, <1>10, <1>11

\* The document of a chapter whose id no other has is about that chapter.
LEMMA DistinctDocs ==
  ASSUME NEW files, IsCorpus(files), NEW of, IsIndex(files, of), IdsAreDistinct(of), NEW i \in DOMAIN of.chapters
  PROVE  of.docs[ProblemId(of.chapters[i])].meta = of.chapters[i]
<1>1. PICK id : id = ProblemId(of.chapters[i])
  OBVIOUS
<1>2. id \in DOMAIN of.docs
  BY <1>1, IndexIs DEF IndexServes
<1>3. PICK j \in DOMAIN of.chapters : of.docs[id].meta = of.chapters[j]
  BY <1>2, DocsAre
<1>4. ProblemId(of.chapters[j]) = id
  BY <1>2, <1>3, DocsAre
<1>5. j = i
  BY <1>1, <1>4 DEF IdsAreDistinct
<1> QED
  BY <1>1, <1>3, <1>5

LEMMA SearchesText == ServerInv => SolutionsUnsearchable
<1> SUFFICES ASSUME ServerInv, Answered({"search"}), DistinctIds, NEW k \in DOMAIN said.answer.ids,
                    NEW file, file = index.docs[said.answer.ids[k]].meta.file, Flat(file.body)
             PROVE  said.call.query \cap (TitleOf(file) \cup Outside(file.body)) # {}
  BY DEF SolutionsUnsearchable
<1>1. /\ index # NoIndex /\ IsCorpus(content) /\ IsIndex(content, index) /\ said.call \in Call
      /\ said.answer = SearchCorpus(index, said.call)
  BY AnswerIs DEF Answered
<1>2. IdsAreDistinct(index)
  BY DEF DistinctIds, IdsAreDistinct
<1>3. SearchAnswer(index, said.call)
  BY <1>1, SearchAnswers
<1>4. PICK i : /\ i \in Found(index, said.call.query, said.call.book) /\ i \in DOMAIN index.chapters
               /\ said.answer.ids[k] = ProblemId(index.chapters[i])
  BY <1>1, <1>3 DEF SearchAnswer
<1>5. PICK meta, id : meta = index.chapters[i] /\ id = said.answer.ids[k]
  OBVIOUS
<1>6. /\ index.docs[id].meta = meta /\ id = ProblemId(meta) /\ id \in DOMAIN index.docs
      /\ meta \in ChaptersOf(content)
  BY <1>1, <1>2, <1>4, <1>5, DistinctDocs, IndexIs DEF IndexServes
<1>7. Score(index, meta, said.call.query) > 0
  BY <1>4, <1>5 DEF Found
<1>8. said.call.query \cap IndexedText(index, meta) # {}
  BY <1>1, <1>7, CallIs, ScoresAreNumbers
<1>9. file = meta.file /\ meta.title = TitleOf(file)
  BY <1>1, <1>5, <1>6, TitleIs
<1>10. TermsOf(index.docs[id].split.visible) = Outside(file.body)
  <2>1. BodyOf(id) = file.body
    BY <1>6, <1>9 DEF BodyOf
  <2> QED
    BY <1>1, <1>6, <2>1, BodySplit
<1>11. IndexedText(index, meta) \subseteq meta.title \cup TermsOf(index.docs[id].split.visible)
  BY <1>6 DEF IndexedText
<1> QED
  BY <1>8, <1>9, <1>10, <1>11

LEMMA Withholds == ServerInv => SolutionWithheld
BY SolutionsWithheld, SearchesText, RestIsShown DEF SolutionWithheld

LEMMA SearchesBest == ServerInv => TopRanked
<1> SUFFICES ASSUME ServerInv, Answered({"search"}), DistinctIds PROVE TopRanked
  BY DEF TopRanked
<1>1. /\ IsCorpus(content) /\ IsIndex(content, index) /\ said.call \in Call
      /\ said.answer = SearchCorpus(index, said.call)
  BY AnswerIs DEF Answered
<1>2. SearchAnswer(index, said.call)
  BY <1>1, SearchAnswers
<1>3. PICK query, book, n, h, ids, S :
        /\ query = said.call.query /\ book = said.call.book /\ n = Limited(said.call.limit, MaxResults)
        /\ h = Hits(index, query, book) /\ ids = said.answer.ids /\ S = Found(index, query, book)
  OBVIOUS
<1>4. /\ Len(ids) \in Nat /\ Len(ids) = AtMost(n, Len(h)) /\ DOMAIN ids = 1 .. Len(ids)
      /\ \A k \in 1 .. Len(ids) :
           k \in 1 .. Len(h) /\ h[k] \in S /\ h[k] \in DOMAIN index.chapters /\ ids[k] = ProblemId(index.chapters[h[k]])
  BY <1>1, <1>2, <1>3 DEF SearchAnswer
<1>5. HitsRank(index, query, book)
  <2>1. query \in SUBSET Term
    BY <1>1, <1>3, CallIs
  <2> QED
    BY <1>1, <2>1, HitsAre
<1>6. /\ Len(h) = Cardinality(S) /\ Len(h) \in Nat
      /\ \A i \in S : \E k \in 1 .. Len(h) : h[k] = i
      /\ \A k, l \in 1 .. Len(h) :
           k < l => Score(index, index.chapters[h[k]], query) >= Score(index, index.chapters[h[l]], query)
  BY <1>3, <1>5 DEF HitsRank
<1>7. S = Matching(query, book) /\ S \in SUBSET (DOMAIN index.chapters)
  BY <1>3 DEF Found, Matching
<1>8. ASSUME NEW i \in S, NEW j \in S, NEW k \in 1 .. Len(ids), ids[k] = ProblemId(index.chapters[i]),
             ~ \E l \in 1 .. Len(ids) : ids[l] = ProblemId(index.chapters[j])
      PROVE  Score(index, index.chapters[i], query) >= Score(index, index.chapters[j], query)
  <2>1. h[k] = i
    BY <1>4, <1>7, <1>8 DEF DistinctIds
  <2>2. PICK l \in 1 .. Len(h) : h[l] = j
    BY <1>6
  <2>3. l \notin 1 .. Len(ids)
    BY <1>4, <1>8, <2>2
  <2>4. k < l
    BY <1>4, <1>6, <2>3
  <2> QED
    BY <1>4, <1>6, <2>1, <2>2, <2>4
<1>9. Len(ids) = AtMost(n, Cardinality(S))
  BY <1>4, <1>6
<1> QED
  BY <1>3, <1>4, <1>7, <1>8, <1>9 DEF TopRanked

LEMMA RelatedAll == ServerInv => RelatedIsFull
<1> SUFFICES ASSUME ServerInv, Answered({"related"}), DistinctIds PROVE RelatedIsFull
  BY DEF RelatedIsFull
<1>1. said # NothingSaid /\ said.call.tool = "related" /\ "ids" \in DOMAIN said.answer
  BY DEF Answered
<1>2. /\ IsCorpus(content) /\ IsIndex(content, index) /\ said.call \in Call
      /\ Resolves(index, said.call.id) /\ said.answer = ListRelated(index, said.call)
  BY <1>1, AnswerIs
<1>3. RelatedAnswer(index, said.call)
  BY <1>2, RelatedAnswers
<1>4. IdsAreDistinct(index)
  BY DEF DistinctIds, IdsAreDistinct
<1>5. PICK query : query = IndexedText(index, index.docs[said.call.id].meta)
  OBVIOUS
<1>6. Found(index, query, AnyBook) = Matching(query, AnyBook)
  BY DEF Found, Matching
<1> QED
  BY <1>2, <1>3, <1>4, <1>5, <1>6 DEF RelatedAnswer, RelatedIsFull

LEMMA FindsBest == ServerInv => FindsTheBest
BY SearchesBest, RelatedAll DEF FindsTheBest

\* The answers are within their caps, and what is kept is about the files.
THEOREM ServerTypeCorrect == ServerSpec => []ServerTypeOK
BY ServerTyped, ServerInvariant, PTL

\* An id that a tool lists is one that the tools resolve, and to the chapter that is
\* meant, exactly if slugify has mangled none of its names, for every corpus
\* (corpus.py:143 with 203-208, slug.py:40 and 72).
THEOREM ListedChaptersResolve == ServerSpec => []ResolvesUnlessMangled
BY ListedResolve, ServerInvariant, PTL

\* No answer shows or searches what only a solution says, but for a heading that became
\* the title, and none withholds anything else, for every corpus and every call
\* (corpus.py:11-13 and 147, tools.py:5-6).
THEOREM SolutionsAreWithheld == ServerSpec => []SolutionWithheld
BY Withholds, ServerInvariant, PTL

\* The outline is a beginning of the sidebar, for every corpus and every budget
\* (corpus.py:121-164, tools.py:89-120).
THEOREM OutlineIsSidebar == ServerSpec => []OutlineFollowsSidebar
BY OutlineFollows, ServerInvariant, PTL

\* A search gives the best chapters, the neighbours are as many as there are, for every
\* corpus, query and limit (search.py:61-81, tools.py:73-87).
THEOREM SearchFindsTheBest == ServerSpec => []FindsTheBest
BY FindsBest, ServerInvariant, PTL
===============================================================================
