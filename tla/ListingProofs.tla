---------------------------- MODULE ListingProofs ----------------------------
(***************************************************************************)
(* A listing misses nothing that stays where it is and shows nothing twice, *)
(* for any folder, page size and number of changes by others.              *)
(*                                                                         *)
(* A cursor is a number of entries. The argument is about how many entries  *)
(* are ahead of one: what was reported has fewer ahead of it than the       *)
(* cursor says, what was not has at least as many, and that number only     *)
(* grows if something that sorts before comes, and only shrinks if          *)
(* something that sorts before goes (Between). While a page is on its way   *)
(* the folder may change, and the same holds of the place after that page   *)
(* (OnItsWay). A page that says there are more is not empty, so a listing    *)
(* ends when the entries do.                                               *)
(***************************************************************************)
EXTENDS Listing, RequestPolicyProofs, FunctionTheorems, FiniteSetTheorems, SequenceTheorems

-----------------------------------------------------------------------------
(* Sets of numbers in their order. *)

\* Of two numbers of a set the greater one has more of the set before it.
LEMMA AheadGrows ==
    ASSUME NEW S \in SUBSET Nat, IsFiniteSet(S), NEW d \in S, NEW e \in Nat, d < e
    PROVE  /\ Cardinality({x \in S : x < d}) \in Nat /\ Cardinality({x \in S : x < e}) \in Nat
           /\ Cardinality({x \in S : x < d}) < Cardinality({x \in S : x < e})
<1> DEFINE D == {x \in S : x < d}
           E == {x \in S : x < e}
<1>1. D \in SUBSET E /\ D # E
  <2>1. d \in E /\ d \notin D /\ \A x \in S : x < d => x < e
    OBVIOUS
  <2> QED BY <2>1
<1>2. IsFiniteSet(D) /\ IsFiniteSet(E)
  BY FS_Subset
<1> HIDE DEF D, E
<1>3. Cardinality(D) \in Nat /\ Cardinality(E) \in Nat
  BY <1>2, FS_CardinalityType
<1>4. Cardinality(D) <= Cardinality(E) /\ Cardinality(D) # Cardinality(E)
  BY <1>1, <1>2, FS_Subset
<1> QED BY <1>3, <1>4 DEF D, E

\* Every element has fewer elements before it than there are.
LEMMA AheadBound ==
    ASSUME NEW S \in SUBSET Nat, IsFiniteSet(S), NEW e \in S
    PROVE  Cardinality({x \in S : x < e}) \in 0 .. Cardinality(S) - 1
<1> DEFINE E == {x \in S : x < e}
<1>1. E \in SUBSET S /\ E # S
  <2>1. e \notin E
    OBVIOUS
  <2> QED BY <2>1
<1> HIDE DEF E
<1>2. IsFiniteSet(E)
  BY <1>1, FS_Subset
<1>3. Cardinality(E) \in Nat /\ Cardinality(S) \in Nat
  BY <1>2, FS_CardinalityType
<1>4. Cardinality(E) <= Cardinality(S) /\ Cardinality(E) # Cardinality(S)
  BY <1>1, FS_Subset
<1> QED BY <1>3, <1>4 DEF E

\* Sorted() lists a set, each element after those that are smaller.
LEMMA SortedFacts ==
    ASSUME NEW S \in SUBSET Nat, IsFiniteSet(S)
    PROVE  /\ Cardinality(S) \in Nat /\ Sorted(S) \in [1..Cardinality(S) -> S]
           /\ \A i \in 1..Cardinality(S) : Cardinality({x \in S : x < Sorted(S)[i]}) = i - 1
           /\ \A e \in S : \E i \in 1..Cardinality(S) : Sorted(S)[i] = e
<1> DEFINE n == Cardinality(S)
           before(e) == Cardinality({x \in S : x < e})
           place == [e \in S |-> before(e) + 1]
<1>1. n \in Nat /\ \A e \in S : before(e) \in 0 .. n - 1
  BY FS_CardinalityType, AheadBound
<1>2. \A d, e \in S : before(d) = before(e) => d = e
  <2>1. ASSUME NEW d \in S, NEW e \in S, d < e PROVE before(d) < before(e)
    BY <2>1, AheadGrows
  <2>2. \A d, e \in S : before(d) \in Int /\ (d = e \/ d < e \/ e < d)
    BY <1>1
  <2> HIDE DEF before
  <2>3. ASSUME NEW d \in S, NEW e \in S, before(d) = before(e) PROVE d = e
    BY <2>1, <2>2, <2>3
  <2> QED BY <2>3
<1> HIDE DEF n, before
<1>3. place \in [S -> 1..n]
  BY <1>1
<1>4. \A d, e \in S : place[d] = place[e] => d = e
  BY <1>1, <1>2
<1> HIDE DEF place
<1>5. place \in Injection(S, 1..n)
  BY <1>3, <1>4, Fun_IsInj
<1>6. IsFiniteSet(1..n) /\ Cardinality(1..n) = n
  BY <1>1, FS_Interval
<1>7. place \in Surjection(S, 1..n)
  BY <1>5, <1>6, FS_Injection DEF n
<1>8. \A i \in 1..n : \E e \in S : before(e) = i - 1
  <2>1. \A i \in 1..n : \E e \in S : place[e] = i
    BY <1>7, Fun_SurjectionProperties
  <2>2. \A e \in S : place[e] = before(e) + 1
    BY DEF place
  <2>3. ASSUME NEW i \in 1..n PROVE \E e \in S : before(e) = i - 1
    <3>1. PICK e \in S : place[e] = i
      BY <2>1
    <3>2. i = before(e) + 1 /\ before(e) \in Int
      BY <1>1, <2>2, <3>1
    <3> QED BY <3>2
  <2> QED BY <2>3
<1>9. Sorted(S) = [i \in 1..n |-> CHOOSE e \in S : before(e) = i - 1]
  BY DEF Sorted, n, before
<1>10. \A i \in 1..n : Sorted(S)[i] \in S /\ before(Sorted(S)[i]) = i - 1
  BY <1>8, <1>9
<1>11. ASSUME NEW e \in S PROVE \E i \in 1..n : Sorted(S)[i] = e
  <2> DEFINE i == before(e) + 1
  <2>1. i \in 1..n /\ i - 1 = before(e)
    BY <1>1
  <2> HIDE DEF i
  <2> QED BY <1>2, <1>10, <2>1
<1> QED BY <1>1, <1>9, <1>10, <1>11 DEF n, before

\* Sorted() is increasing.
LEMMA SortedIncreasing ==
    ASSUME NEW S \in SUBSET Nat, IsFiniteSet(S), NEW i \in 1..Cardinality(S),
           NEW j \in 1..Cardinality(S), i < j
    PROVE  Sorted(S)[i] < Sorted(S)[j]
<1> DEFINE d == Sorted(S)[i]
           e == Sorted(S)[j]
<1>1. /\ d \in S /\ e \in S
      /\ Cardinality({x \in S : x < d}) = i - 1 /\ Cardinality({x \in S : x < e}) = j - 1
      /\ Cardinality(S) \in Nat
  BY SortedFacts
<1> HIDE DEF d, e
<1>2. ASSUME e < d PROVE FALSE
  <2>1. Cardinality({x \in S : x < e}) < Cardinality({x \in S : x < d})
    BY <1>1, <1>2, AheadGrows
  <2> QED BY <1>1, <2>1
<1>3. d # e
  <2>1. i - 1 # j - 1
    OBVIOUS
  <2> QED BY <1>1, <2>1
<1>4. d \in Nat /\ e \in Nat
  BY <1>1
<1>5. d < e
  BY <1>2, <1>3, <1>4
<1> QED BY <1>5 DEF d, e

-----------------------------------------------------------------------------
(* The listing. *)

\* How many of the entries of the folder sort before an entry.
Ahead(e) == Cardinality({x \in folder : x < e})

\* Something that sorts before an entry came, or went, since the first page.
PushedBack(e) == \E a \in added : a < e
PulledForward(e) == \E r \in removed : r < e

Elements(s) == {s[i] : i \in DOMAIN s}
Increasing(s) == \A i, j \in DOMAIN s : i < j => s[i] < s[j]

\* A call that runs reads nothing but its reply, and its result is still open.
Running ==
    /\ phase = "running" => outcome = "none"
    /\ reply.status \in Nat /\ (reply.status = 200 => phase = "running")
    /\ ~paging /\ outcome = "none" => reported = <<>> /\ cursor = 0

\* What was there from the first page on, and never went, is there: what came and
\* went are entries.
Kept ==
    /\ present \cup added \cup removed \subseteq Entries
    /\ present \ removed \subseteq folder

\* Between two pages: the entries that were reported are before the cursor, unless
\* they were pushed back, and those that are still to be reported are not, unless
\* they were pulled forward.
Between ==
    outcome = "none" =>
        /\ \A e \in Elements(reported) : PushedBack(e) \/ Ahead(e) < cursor
        /\ \A e \in present \ (Odd \cup removed) :
              e \in Elements(reported) \/ PulledForward(e) \/ Ahead(e) >= cursor

\* With a page on its way the same holds of the place after that page.
OnItsWay ==
    reply.status = 200 =>
        /\ reply.entries \in Seq(Entries) /\ Increasing(reply.entries)
        /\ reply.next \in cursor..MaxEntries /\ reply.more \in BOOLEAN
        /\ reply.more => reply.next > cursor
        /\ \A e \in Elements(reply.entries) :
              PushedBack(e) \/ (Ahead(e) < reply.next /\ e \notin Elements(reported))
        /\ \A e \in present \ (Odd \cup removed) :
              \/ e \in Elements(reported) \cup Elements(reply.entries) \/ PulledForward(e)
              \/ reply.more /\ Ahead(e) >= reply.next

IInv ==
    /\ TypeOK /\ Running /\ Kept /\ Between /\ OnItsWay
    /\ ListingUnique /\ ListingComplete

\* The folder, as far as it can be counted.
LEMMA FolderFacts ==
    ASSUME folder \subseteq Entries
    PROVE  /\ folder \in SUBSET Nat /\ IsFiniteSet(folder)
           /\ Cardinality(folder) \in 0..MaxEntries
           /\ \A e \in Entries : Ahead(e) \in Nat
           /\ \A e \in folder : Ahead(e) < Cardinality(folder)
<1>1. MaxEntries \in Nat /\ Entries = 1..MaxEntries
  BY ListingAssumption DEF Entries
<1>2. IsFiniteSet(Entries) /\ Cardinality(Entries) = MaxEntries
  BY <1>1, FS_Interval
<1>3. folder \in SUBSET Nat /\ IsFiniteSet(folder) /\ Cardinality(folder) <= MaxEntries
  <2>1. folder \in SUBSET Entries
    OBVIOUS
  <2>2. IsFiniteSet(folder) /\ Cardinality(folder) <= Cardinality(Entries)
    BY <1>2, <2>1, FS_Subset
  <2>3. Entries \subseteq Nat
    BY <1>1
  <2> QED BY <1>2, <2>1, <2>2, <2>3
<1>4. Cardinality(folder) \in Nat
  BY <1>3, FS_CardinalityType
<1>5. ASSUME NEW e \in Entries PROVE Ahead(e) \in Nat
  <2>1. {x \in folder : x < e} \in SUBSET folder
    OBVIOUS
  <2>2. IsFiniteSet({x \in folder : x < e})
    BY <1>3, <2>1, FS_Subset
  <2> QED BY <2>2, FS_CardinalityType DEF Ahead
<1>6. ASSUME NEW e \in folder PROVE Ahead(e) < Cardinality(folder)
  BY <1>3, <1>4, AheadBound DEF Ahead
<1> QED BY <1>1, <1>3, <1>4, <1>5, <1>6

\* A page holds the entries with as many others ahead of them as the cursor says,
\* and goes on until it is full or the folder ends.
LEMMA PageFacts ==
    ASSUME folder \subseteq Entries, NEW offset \in 0..MaxEntries
    PROVE  LET page == Paged(offset)
           IN  /\ page.status = 200 /\ page.entries \in Seq(Entries)
               /\ Increasing(page.entries)
               /\ page.next \in offset..MaxEntries /\ page.more \in BOOLEAN
               /\ page.more => page.next > offset
               /\ \A e \in Elements(page.entries) : Ahead(e) >= offset /\ Ahead(e) < page.next
               /\ \A e \in folder : Ahead(e) >= offset =>
                     \/ e \in Elements(page.entries)
                     \/ page.more /\ Ahead(e) >= page.next
<1> DEFINE n == Cardinality(folder)
           paths == Sorted(folder)
           last == IF offset + PageSize < n THEN offset + PageSize ELSE n
           chunk == SubSeq(paths, offset + 1, last)
<1>1. /\ folder \in SUBSET Nat /\ IsFiniteSet(folder) /\ n \in 0..MaxEntries
      /\ MaxEntries \in Nat /\ PageSize \in Nat \ {0}
      /\ \A e \in folder : Ahead(e) \in Nat /\ Ahead(e) < n
  BY FolderFacts, ListingAssumption
<1>2. /\ paths \in [1..n -> folder] /\ \A i \in 1..n : Ahead(paths[i]) = i - 1
      /\ \A e \in folder : \E i \in 1..n : paths[i] = e
      /\ \A i, j \in 1..n : i < j => paths[i] < paths[j]
  BY <1>1, SortedFacts, SortedIncreasing DEF Ahead
<1>3. paths \in Seq(folder) /\ Len(paths) = n
  <2>1. n \in Nat
    BY <1>1
  <2> HIDE DEF n, paths
  <2> QED BY <1>2, <2>1, SeqDef, LenProperties
<1>4. Paged(offset) = [status |-> 200, refused |-> {}, entries |-> chunk,
                       more |-> offset + Len(chunk) < n, next |-> offset + Len(chunk)]
  BY <1>3 DEF Paged
<1> HIDE DEF n, paths
<1>5. last \in 0..n /\ offset \in Nat /\ (last = n \/ (last = offset + PageSize /\ last < n))
  <2>1. n \in Nat /\ offset \in Nat /\ PageSize \in Nat \ {0}
    BY <1>1
  <2> HIDE DEF n
  <2> QED BY <2>1
<1> HIDE DEF last
<1>6. /\ chunk \in Seq(folder) /\ Len(chunk) = IF offset < last THEN last - offset ELSE 0
      /\ \A i \in 1..Len(chunk) : offset + i \in 1..n /\ chunk[i] = paths[offset + i]
  <2>1. \A i \in offset + 1 .. last : paths[i] \in folder
    <3>1. \A i \in offset + 1 .. last : i \in 1..n
      BY <1>1, <1>5
    <3> QED BY <1>2, <3>1
  <2>2. offset + 1 \in Int /\ last \in Int /\ n \in Int
    BY <1>1, <1>5
  <2>3. /\ chunk \in Seq(folder)
        /\ Len(chunk) = IF offset + 1 <= last THEN last - (offset + 1) + 1 ELSE 0
        /\ \A i \in 1 .. last - (offset + 1) + 1 : chunk[i] = paths[(offset + 1) + i - 1]
    BY <2>1, <2>2, SubSeqProperties
  <2>4. Len(chunk) = IF offset < last THEN last - offset ELSE 0
    BY <1>5, <2>2, <2>3
  <2>5. ASSUME NEW i \in 1..Len(chunk)
        PROVE  offset + i \in 1..n /\ chunk[i] = paths[offset + i]
    <3>1. /\ i \in 1 .. last - (offset + 1) + 1 /\ (offset + 1) + i - 1 = offset + i
          /\ offset + i \in 1..n
      BY <1>5, <2>2, <2>4
    <3> QED BY <2>3, <3>1
  <2> QED BY <2>3, <2>4, <2>5
<1> HIDE DEF chunk
<1> DEFINE next == offset + Len(chunk)
<1>7. chunk \in Seq(Entries) /\ Len(chunk) \in Nat
  <2>1. \A i \in 1..Len(chunk) : chunk[i] \in Entries
    BY <1>6, ElementOfSeq
  <2>2. Len(chunk) \in Nat /\ chunk \in [1..Len(chunk) -> folder]
    BY <1>6, LenProperties
  <2> QED BY <2>1, <2>2, SeqDef
<1>8. Increasing(chunk)
  <2> SUFFICES ASSUME NEW i \in 1..Len(chunk), NEW j \in 1..Len(chunk), i < j
               PROVE  chunk[i] < chunk[j]
    BY <1>7, LenProperties DEF Increasing
  <2>1. offset + i < offset + j
    BY <1>5, <1>7
  <2> QED BY <1>2, <1>6, <2>1
<1>9. next \in offset..MaxEntries
  BY <1>1, <1>5, <1>6
<1>10. ASSUME NEW e \in Elements(chunk) PROVE Ahead(e) >= offset /\ Ahead(e) < next
  <2>1. PICK i \in 1..Len(chunk) : e = chunk[i]
    BY <1>7, LenProperties DEF Elements
  <2>2. Ahead(e) = offset + i - 1
    BY <1>2, <1>6, <2>1
  <2> QED BY <1>5, <1>7, <2>2
<1>11. ASSUME NEW e \in folder, Ahead(e) >= offset
       PROVE  e \in Elements(chunk) \/ (next < n /\ Ahead(e) >= next)
  <2>1. PICK p \in 1..n : e = paths[p] /\ Ahead(e) = p - 1
    BY <1>2
  <2>2. p \in Nat /\ n \in Nat /\ p > offset /\ p <= n
    BY <1>1, <1>5, <1>11, <2>1
  <2>3. CASE p <= last
    <3> DEFINE i == p - offset
    <3>1. i \in 1..Len(chunk) /\ offset + i = p
      BY <1>5, <1>6, <2>2, <2>3
    <3>2. chunk[i] = e
      BY <1>6, <2>1, <3>1
    <3> QED BY <1>7, <3>1, <3>2, LenProperties DEF Elements
  <2>4. CASE p > last
    BY <1>1, <1>5, <1>6, <2>1, <2>2, <2>4
  <2> QED BY <1>5, <2>2, <2>3, <2>4
<1>12. next < n => next > offset
  BY <1>1, <1>5, <1>6
<1> DEFINE page == Paged(offset)
<1>13. /\ page.status = 200 /\ page.entries = chunk /\ page.next = next
       /\ page.more = (next < n)
  BY <1>4
<1> HIDE DEF page, next
<1>14. page.more \in BOOLEAN
  BY <1>13
<1> QED BY <1>7, <1>8, <1>9, <1>10, <1>11, <1>12, <1>13, <1>14 DEF page

\* A batch holds the entries of a page that are shown, in the order of the page.
LEMMA ValidFacts ==
    ASSUME NEW s \in Seq(Entries)
    PROVE  /\ Valid(s) \in Seq(Entries \ Odd)
           /\ Elements(Valid(s)) = Elements(s) \ Odd
           /\ Increasing(s) => Increasing(Valid(s))
<1> DEFINE kept == {i \in DOMAIN s : s[i] \notin Odd}
           places == Sorted(kept)
           m == Cardinality(kept)
<1>1. Len(s) \in Nat /\ DOMAIN s = 1..Len(s) /\ \A i \in 1..Len(s) : s[i] \in Entries
  BY LenProperties, ElementOfSeq
<1>2. kept \in SUBSET Nat /\ IsFiniteSet(kept)
  <2>1. IsFiniteSet(1..Len(s)) /\ kept \in SUBSET (1..Len(s))
    BY <1>1, FS_Interval
  <2>2. IsFiniteSet(kept)
    BY <2>1, FS_Subset
  <2> QED BY <1>1, <2>1, <2>2
<1>3. \A i \in kept : i \in DOMAIN s /\ s[i] \in Entries \ Odd
  BY <1>1
<1>4. \A i \in DOMAIN s : s[i] \notin Odd => i \in kept
  OBVIOUS
<1>5. Valid(s) = [k \in DOMAIN places |-> s[places[k]]]
  BY DEF Valid
<1> HIDE DEF kept
<1>6. /\ m \in Nat /\ places \in [1..m -> kept]
      /\ \A i \in kept : \E k \in 1..m : places[k] = i
      /\ \A k, l \in 1..m : k < l => places[k] < places[l]
  BY <1>2, SortedFacts, SortedIncreasing
<1> HIDE DEF m, places
<1>7. /\ Valid(s) \in [1..m -> Entries \ Odd] /\ DOMAIN Valid(s) = 1..m
      /\ \A k \in 1..m : Valid(s)[k] = s[places[k]] /\ places[k] \in kept
  BY <1>3, <1>5, <1>6
<1>8. Valid(s) \in Seq(Entries \ Odd)
  BY <1>6, <1>7, SeqDef
<1>9. Elements(Valid(s)) = Elements(s) \ Odd
  <2>1. ASSUME NEW e \in Elements(Valid(s)) PROVE e \in Elements(s) \ Odd
    <3>1. PICK k \in 1..m : e = s[places[k]] /\ places[k] \in kept
      BY <1>7, <2>1 DEF Elements
    <3> QED BY <1>3, <3>1 DEF Elements
  <2>2. ASSUME NEW e \in Elements(s) \ Odd PROVE e \in Elements(Valid(s))
    <3>1. PICK i \in DOMAIN s : e = s[i] /\ i \in kept
      BY <1>4, <2>2 DEF Elements
    <3>2. PICK k \in 1..m : places[k] = i
      BY <1>6, <3>1
    <3> QED BY <1>7, <3>1, <3>2 DEF Elements
  <2> QED BY <2>1, <2>2
<1>10. ASSUME Increasing(s) PROVE Increasing(Valid(s))
  <2> SUFFICES ASSUME NEW k \in 1..m, NEW l \in 1..m, k < l PROVE Valid(s)[k] < Valid(s)[l]
    BY <1>7 DEF Increasing
  <2> QED BY <1>3, <1>6, <1>7, <1>10 DEF Increasing
<1> QED BY <1>8, <1>9, <1>10

\* A batch is reported after what was reported before.
LEMMA ReportedFacts ==
    ASSUME NEW s \in Seq(Entries \ Odd), NEW t \in Seq(Entries \ Odd)
    PROVE  /\ s \o t \in Seq(Entries \ Odd) /\ Len(s \o t) \in Nat
           /\ Elements(s \o t) = Elements(s) \cup Elements(t)
           /\ \A i, j \in DOMAIN (s \o t) : i < j /\ (s \o t)[i] = (s \o t)[j] =>
                 \/ i \in DOMAIN s /\ j \in DOMAIN s /\ s[i] = s[j] /\ (s \o t)[i] = s[i]
                 \/ (s \o t)[i] \in Elements(s) \cap Elements(t)
                 \/ ~Increasing(t)
<1> DEFINE a == Len(s)
           b == Len(t)
           r == s \o t
<1>1. /\ a \in Nat /\ b \in Nat /\ DOMAIN s = 1..a /\ DOMAIN t = 1..b
      /\ r \in Seq(Entries \ Odd) /\ Len(r) = a + b /\ DOMAIN r = 1 .. a + b
      /\ \A i \in 1 .. a + b : r[i] = IF i <= a THEN s[i] ELSE t[i - a]
  BY LenProperties, ConcatProperties
<1>2. \A i \in 1..b : t[i] \in Nat
  BY ElementOfSeq, ListingAssumption DEF Entries
<1> HIDE DEF a, b, r
<1>3. \A i \in 1 .. a + b : \/ i \in 1..a /\ r[i] = s[i]
                            \/ i > a /\ i - a \in 1..b /\ r[i] = t[i - a]
  BY <1>1
<1>4. /\ \A i \in 1..a : i \in 1 .. a + b /\ r[i] = s[i]
      /\ \A i \in 1..b : a + i \in 1 .. a + b /\ r[a + i] = t[i]
  <2>1. \A i \in 1..b : a + i \in 1 .. a + b /\ ~(a + i <= a) /\ a + i - a = i
    BY <1>1
  <2> QED BY <1>1, <2>1
<1>5. Elements(r) = Elements(s) \cup Elements(t)
  <2>1. ASSUME NEW e \in Elements(r) PROVE e \in Elements(s) \cup Elements(t)
    <3>1. PICK i \in 1 .. a + b : e = r[i]
      BY <1>1, <2>1 DEF Elements
    <3> QED BY <1>1, <1>3, <3>1 DEF Elements
  <2>2. ASSUME NEW e \in Elements(s) \cup Elements(t) PROVE e \in Elements(r)
    <3>1. \/ \E i \in 1..a : e = s[i]
          \/ \E i \in 1..b : e = t[i]
      BY <1>1, <2>2 DEF Elements
    <3>2. \E i \in 1 .. a + b : e = r[i]
      BY <1>4, <3>1
    <3> QED BY <1>1, <3>2 DEF Elements
  <2> QED BY <2>1, <2>2
<1>6. ASSUME NEW i \in 1 .. a + b, NEW j \in 1 .. a + b, i < j, r[i] = r[j], Increasing(t)
      PROVE  \/ i \in 1..a /\ j \in 1..a /\ s[i] = s[j] /\ r[i] = s[i]
             \/ r[i] \in Elements(s) \cap Elements(t)
  <2>1. CASE i \in 1..a /\ j \in 1..a
    BY <1>4, <1>6, <2>1
  <2>2. CASE i \in 1..a /\ j \notin 1..a
    BY <1>1, <1>3, <1>4, <1>6, <2>2 DEF Elements
  <2>3. CASE i \notin 1..a
    <3> DEFINE k == i - a
               l == j - a
    <3>1. k \in 1..b /\ l \in 1..b /\ k < l /\ r[i] = t[k] /\ r[j] = t[l]
      BY <1>1, <1>3, <1>6, <2>3
    <3> HIDE DEF k, l
    <3>2. t[k] < t[l]
      BY <1>1, <1>6, <3>1 DEF Increasing
    <3>3. t[k] \in Nat /\ t[k] = t[l]
      BY <1>2, <1>6, <3>1
    <3> QED BY <3>2, <3>3
  <2> QED BY <2>1, <2>2, <2>3
<1>7. r \in Seq(Entries \ Odd) /\ Len(r) \in Nat
  BY <1>1
<1> QED BY <1>1, <1>5, <1>6, <1>7 DEF r

\* At first nothing was asked and nothing reported.
LEMMA Initially == Init => IInv
<1> SUFFICES ASSUME Init PROVE IInv
  OBVIOUS
<1>1. reported = <<>> /\ cursor = 0 /\ outcome = "none" /\ reply = NoReply
      /\ present = {} /\ added = {} /\ removed = {} /\ NoReply.status = 0
  BY DEF Init, NoReply, NoStatus
<1>2. TypeOK
  <2>1. phase = "idle" /\ ok = TRUE /\ error = "None"
    BY DEF Init, Call!Init
  <2>2. reported \in Seq(Entries \ Odd)
    BY <1>1, EmptySeq
  <2>3. cursor \in 0..MaxEntries /\ changes \in 0..MaxChanges
    BY ListingAssumption DEF Init
  <2>4. folder \subseteq Entries /\ exists \in BOOLEAN /\ paging = FALSE
        /\ listedDirectory = FALSE /\ total = NoTotal /\ cut = FALSE
    BY DEF Init
  <2> QED BY <1>1, <2>1, <2>2, <2>3, <2>4 DEF TypeOK, Kinds
<1>3. Running /\ Kept
  BY <1>1 DEF Running, Kept
<1>4. Elements(reported) = {} /\ DOMAIN reported = {}
  BY <1>1 DEF Elements
<1>5. Between /\ OnItsWay /\ ListingUnique /\ ListingComplete
  BY <1>1, <1>4 DEF Between, OnItsWay, ListingUnique, ListingComplete
<1> QED BY <1>2, <1>3, <1>5 DEF IInv

\* A call begins, or the job is turned away: nothing is learnt or forgotten.
LEMMA AskStep == ASSUME IInv, TurnAway \/ Ask PROVE IInv'
<1>1. /\ outcome = "none" /\ (outcome' = "none" \/ (outcome' = "CannotLogin" /\ phase' = "idle"))
      /\ phase = "idle" /\ phase' \in {"idle", "running"} /\ ok' \in BOOLEAN /\ error' \in Kinds
      /\ UNCHANGED <<folder, exists, paging, cursor, reply, listedDirectory, reported, total,
                     changes, present, added, removed, cut>>
  <2>1. CASE TurnAway
    BY <2>1 DEF TurnAway, IInv, TypeOK, callVars, requestVars, history
  <2>2. CASE Ask
    <3>1. phase = "idle" /\ phase' = "running" /\ ok' = FALSE /\ error' = "None"
      BY <2>2 DEF Ask, Call!Begin
    <3> QED BY <2>2, <3>1 DEF Ask, Kinds, requestVars, resultVars, history
  <2> QED BY <2>1, <2>2
<1>2. reply = NoReply /\ NoReply.status = 0
  BY <1>1 DEF IInv, TypeOK, NoReply, NoStatus
<1>3. TypeOK'
  BY <1>1, <1>2 DEF IInv, TypeOK, NoReply
<1>4. Running' /\ Kept'
  BY <1>1, <1>2 DEF IInv, Running, Kept
<1>5. Between' /\ OnItsWay'
  BY <1>1, <1>2 DEF IInv, Between, OnItsWay, Ahead, PushedBack, PulledForward
<1>6. ListingUnique' /\ ListingComplete'
  BY <1>1 DEF IInv, ListingUnique, ListingComplete
<1> QED BY <1>3, <1>4, <1>5, <1>6 DEF IInv

\* A call that fails ends the listing.
LEMMA FailedStep == ASSUME IInv, Failed PROVE IInv'
<1>1. PICK kind \in {"Network", "Authentication", "RateLimited", "Server"} \cup Refusals :
        Call!Fail(kind) /\ outcome' = kind
  BY DEF Failed
<1>2. kind \in Kinds \ {"None"}
  <2>1. ASSUME NEW w PROVE KindOf(409, FALSE, w) \in Kinds \ {"None"}
    BY DEF KindOf, SummaryKind, Kinds
  <2>2. Refusals \subseteq Kinds \ {"None"}
    <3>1. CASE reply.status # 409
      BY <3>1 DEF Refusals
    <3>2. CASE reply.status = 409
      <4> SUFFICES ASSUME NEW k \in Refusals PROVE k \in Kinds \ {"None"}
        OBVIOUS
      <4>1. PICK w \in {reply.refused, {}} : k = KindOf(409, FALSE, w)
        BY <3>2 DEF Refusals
      <4> QED BY <2>1, <4>1
    <3> QED BY <3>1, <3>2
  <2> QED BY <2>2 DEF Kinds
<1>3. kind # "none" /\ kind # "ok"
  BY <1>2 DEF Kinds
<1>4. /\ phase' = "idle" /\ error' = kind /\ ok' = ok
      /\ reply' = NoReply /\ NoReply.status = 0
      /\ UNCHANGED <<folder, exists, paging, cursor, listedDirectory, reported, total,
                     changes, present, added, removed, cut>>
  BY <1>1 DEF Failed, Call!Fail, requestVars, history, NoReply, NoStatus
<1>5. TypeOK'
  BY <1>1, <1>2, <1>4 DEF IInv, TypeOK
<1>6. Running' /\ Kept' /\ Between' /\ OnItsWay'
  BY <1>1, <1>3, <1>4 DEF IInv, Running, Kept, Between, OnItsWay
<1>7. ListingUnique' /\ ListingComplete'
  BY <1>1, <1>3, <1>4 DEF IInv, ListingUnique, ListingComplete
<1> QED BY <1>5, <1>6, <1>7 DEF IInv

\* The server answers an attempt from the folder as it is.
LEMMA ServeStep == ASSUME IInv, Serve PROVE IInv'
<1>1. /\ phase = "running" /\ outcome = "none"
      /\ UNCHANGED <<phase, ok, error, folder, exists, paging, cursor, listedDirectory,
                     reported, total, outcome, changes, cut>>
      /\ folder \subseteq Entries /\ cursor \in 0..MaxEntries
  BY DEF IInv, Running, TypeOK, Serve, callVars, requestVars, resultVars
<1>2. \/ paging /\ UNCHANGED <<present, added, removed>>
      \/ ~paging /\ present' = folder /\ added' = {} /\ removed' = {} /\ reported = <<>>
         /\ cursor = 0
  BY <1>1 DEF IInv, Running, Serve
<1>3. \A e : Ahead(e)' = Ahead(e)
  BY <1>1 DEF Ahead
<1>4. TypeOK'
  BY <1>1 DEF IInv, TypeOK
<1>5. Kept'
  BY <1>1, <1>2 DEF IInv, Kept
<1>6. Between'
  <2>1. CASE paging
    BY <1>1, <1>2, <1>3, <2>1 DEF IInv, Between, PushedBack, PulledForward
  <2>2. CASE ~paging
    <3>1. Elements(reported') = {}
      BY <1>1, <1>2, <2>2 DEF Elements
    <3>2. \A e \in Entries : Ahead(e)' >= 0
      BY <1>1, <1>3, FolderFacts
    <3> QED BY <1>1, <1>2, <2>2, <3>1, <3>2 DEF Between
  <2> QED BY <2>1, <2>2
<1>7. ListingUnique' /\ ListingComplete'
  <2>1. ListingUnique'
    <3>1. CASE paging
      BY <1>1, <1>2, <3>1 DEF IInv, ListingUnique
    <3>2. CASE ~paging
      BY <1>1, <1>2, <3>2 DEF ListingUnique
    <3> QED BY <3>1, <3>2
  <2> QED BY <1>1, <2>1 DEF ListingComplete
<1>8. CASE reply' = [NoReply EXCEPT !.status = 409, !.refused = {"not_found"}]
  <2>1. reply'.status = 409
    BY <1>8 DEF NoReply
  <2>2. Running' /\ OnItsWay'
    BY <1>1, <2>1 DEF IInv, Running, OnItsWay
  <2> QED BY <1>4, <1>5, <1>6, <1>7, <2>2 DEF IInv
<1>9. CASE reply' = Paged(cursor)
  <2> DEFINE page == Paged(cursor)
  <2>1. /\ page.status = 200 /\ page.entries \in Seq(Entries) /\ Increasing(page.entries)
        /\ page.next \in cursor..MaxEntries /\ page.more \in BOOLEAN
        /\ page.more => page.next > cursor
        /\ \A e \in Elements(page.entries) : Ahead(e) >= cursor /\ Ahead(e) < page.next
        /\ \A e \in folder : Ahead(e) >= cursor =>
              e \in Elements(page.entries) \/ (page.more /\ Ahead(e) >= page.next)
    BY <1>1, PageFacts
  <2>2. reply' = page
    BY <1>9
  <2> HIDE DEF page
  <2>3. Running'
    BY <1>1, <2>1, <2>2 DEF IInv, Running
  <2>4. ASSUME NEW e \in Elements(page.entries)
        PROVE  PushedBack(e)' \/ (Ahead(e)' < page.next /\ e \notin Elements(reported'))
    <3>1. e \in Elements(reported') => PushedBack(e)' \/ Ahead(e)' < cursor
      BY <1>1, <1>6 DEF Between
    <3>2. e \in Entries /\ Ahead(e) \in Nat
      <4>1. e \in Entries
        BY <2>1, <2>4, LenProperties, ElementOfSeq DEF Elements
      <4> QED BY <1>1, <4>1, FolderFacts
    <3> QED BY <1>1, <1>3, <2>1, <2>4, <3>1, <3>2
  <2>5. ASSUME NEW e \in present' \ (Odd \cup removed')
        PROVE  \/ e \in Elements(reported') \cup Elements(page.entries) \/ PulledForward(e)'
               \/ page.more /\ Ahead(e)' >= page.next
    <3>1. e \in folder
      BY <1>1, <1>5, <2>5 DEF Kept
    <3>2. e \in Elements(reported') \/ PulledForward(e)' \/ Ahead(e)' >= cursor
      BY <1>1, <1>6, <2>5 DEF Between
    <3> QED BY <1>3, <2>1, <3>1, <3>2
  <2>6. OnItsWay'
    BY <1>1, <2>1, <2>2, <2>4, <2>5 DEF OnItsWay
  <2> QED BY <1>4, <1>5, <1>6, <1>7, <2>3, <2>6 DEF IInv
<1> QED BY <1>8, <1>9 DEF Serve

\* A set of numbers that loses elements has fewer before a number, or as many if
\* none of those was before it.
LEMMA AheadShrinks ==
    ASSUME NEW T \in SUBSET Entries, NEW S \in SUBSET T, NEW e \in Entries
    PROVE  /\ Cardinality({x \in S : x < e}) <= Cardinality({x \in T : x < e})
           /\ (\A x \in T \ S : ~(x < e)) =>
                 Cardinality({x \in S : x < e}) = Cardinality({x \in T : x < e})
<1>1. IsFiniteSet(T)
  <2>1. IsFiniteSet(Entries)
    BY ListingAssumption, FS_Interval DEF Entries
  <2> QED BY <2>1, FS_Subset
<1>2. {x \in T : x < e} \in SUBSET T /\ {x \in S : x < e} \in SUBSET {x \in T : x < e}
  OBVIOUS
<1>3. Cardinality({x \in S : x < e}) <= Cardinality({x \in T : x < e})
  BY <1>1, <1>2, FS_Subset
<1>4. ASSUME \A x \in T \ S : ~(x < e) PROVE {x \in S : x < e} = {x \in T : x < e}
  BY <1>4
<1> QED BY <1>3, <1>4

\* Whatever others do to the folder, only what comes before an entry pushes it
\* back, and only what goes before it pulls it forward.
LEMMA ChangeStep == ASSUME IInv, Change PROVE IInv'
<1>1. /\ changes < MaxChanges /\ changes' = changes + 1
      /\ UNCHANGED <<phase, ok, error, paging, cursor, reply, listedDirectory, reported,
                     total, outcome, present, cut>>
      /\ folder \subseteq Entries
  BY DEF Change, callVars, requestVars, resultVars, IInv, TypeOK
<1>2. /\ folder' \subseteq Entries /\ exists' \in BOOLEAN
      /\ added \subseteq added' /\ removed \subseteq removed'
      /\ added' \cup removed' \subseteq Entries
      /\ \/ folder \subseteq folder' /\ folder' \ folder \subseteq added'
         \/ folder' \subseteq folder /\ folder \ folder' \subseteq removed'
  BY <1>1 DEF Change, IInv, TypeOK, Kept
<1>3. \A e : /\ PushedBack(e) => PushedBack(e)'
             /\ PulledForward(e) => PulledForward(e)'
  BY <1>2 DEF PushedBack, PulledForward
<1>4. ASSUME NEW e \in Entries
      PROVE  /\ Ahead(e) \in Nat /\ Ahead(e)' \in Nat
             /\ PushedBack(e)' \/ Ahead(e)' <= Ahead(e)
             /\ PulledForward(e)' \/ Ahead(e)' >= Ahead(e)
  <2>1. Ahead(e) \in Nat
    BY <1>1, FolderFacts
  <2>2. Ahead(e)' \in Nat
    <3>1. IsFiniteSet(Entries)
      BY ListingAssumption, FS_Interval DEF Entries
    <3>2. {x \in folder' : x < e} \in SUBSET Entries
      BY <1>2
    <3> QED BY <3>1, <3>2, FS_Subset, FS_CardinalityType DEF Ahead
  <2>3. CASE folder \subseteq folder' /\ folder' \ folder \subseteq added'
    <3>1. /\ Cardinality({x \in folder : x < e}) <= Cardinality({x \in folder' : x < e})
          /\ (\A x \in folder' \ folder : ~(x < e)) =>
                Cardinality({x \in folder : x < e}) = Cardinality({x \in folder' : x < e})
      BY <1>2, <2>3, AheadShrinks
    <3>2. PushedBack(e)' \/ \A x \in folder' \ folder : ~(x < e)
      BY <2>3 DEF PushedBack
    <3> QED BY <2>1, <2>2, <3>1, <3>2 DEF Ahead
  <2>4. CASE folder' \subseteq folder /\ folder \ folder' \subseteq removed'
    <3>1. /\ Cardinality({x \in folder' : x < e}) <= Cardinality({x \in folder : x < e})
          /\ (\A x \in folder \ folder' : ~(x < e)) =>
                Cardinality({x \in folder' : x < e}) = Cardinality({x \in folder : x < e})
      BY <1>1, <2>4, AheadShrinks
    <3>2. PulledForward(e)' \/ \A x \in folder \ folder' : ~(x < e)
      BY <2>4 DEF PulledForward
    <3> QED BY <2>1, <2>2, <3>1, <3>2 DEF Ahead
  <2> QED BY <1>2, <2>1, <2>2, <2>3, <2>4
<1>5. TypeOK'
  <2>1. changes' \in 0..MaxChanges
    BY <1>1, ListingAssumption DEF IInv, TypeOK
  <2> QED BY <1>1, <1>2, <2>1 DEF IInv, TypeOK
<1>6. Running'
  BY <1>1 DEF IInv, Running
<1>7. Kept'
  BY <1>1, <1>2 DEF IInv, Kept
<1>8. /\ Elements(reported) \subseteq Entries
      /\ reply.status = 200 => Elements(reply.entries) \subseteq Entries
      /\ present \subseteq Entries
  BY LenProperties, ElementOfSeq DEF Elements, IInv, TypeOK, Kept, OnItsWay
<1>9. cursor \in Nat /\ (reply.status = 200 => reply.next \in Nat)
  BY ListingAssumption DEF IInv, TypeOK, OnItsWay
<1>10. Between'
  BY <1>1, <1>2, <1>3, <1>4, <1>8, <1>9 DEF IInv, Between
<1>11. OnItsWay'
  BY <1>1, <1>2, <1>3, <1>4, <1>8, <1>9 DEF IInv, OnItsWay
<1>12. ListingUnique'
  BY <1>1, <1>2 DEF IInv, ListingUnique
<1>13. ListingComplete'
  BY <1>1, <1>2 DEF IInv, ListingComplete
<1> QED BY <1>5, <1>6, <1>7, <1>10, <1>11, <1>12, <1>13 DEF IInv

\* A page arrived, whole or cut off: what is in it is reported.
LEMMA PageStep == ASSUME IInv, Page PROVE IInv'
<1>1. PICK r \in {reply, NoReply} :
        /\ cut' = (cut \/ r = NoReply)
        /\ reported' = reported \o Valid(r.entries)
        /\ \/ /\ r.more /\ paging' = TRUE /\ cursor' = r.next
              /\ UNCHANGED <<total, outcome>>
           \/ /\ ~r.more /\ outcome' = "ok" /\ total' = Len(reported')
              /\ UNCHANGED <<paging, cursor>>
  BY DEF Page, HasMore, NextCursor, requestVars
<1>2. /\ reply.status = 200 /\ phase = "running" /\ outcome = "none"
      /\ phase' = "idle" /\ ok' = TRUE /\ error' = error
      /\ listedDirectory' = TRUE /\ reply' = NoReply
      /\ UNCHANGED <<folder, exists, changes, present, added, removed>>
  BY DEF IInv, Running, Page, Call!Succeed
<1>3. NoReply.status = 0 /\ NoReply.entries = <<>> /\ NoReply.more = FALSE
  BY DEF NoReply, NoStatus
<1>4. /\ reply.entries \in Seq(Entries) /\ Increasing(reply.entries)
      /\ reply.next \in cursor..MaxEntries /\ cursor \in 0..MaxEntries
  BY <1>2 DEF IInv, OnItsWay, TypeOK
<1>5. r.entries \in Seq(Entries) /\ Increasing(r.entries) /\ Elements(r.entries) \subseteq Entries
  <2>1. CASE r = reply
    BY <1>4, <2>1, LenProperties, ElementOfSeq DEF Elements
  <2>2. CASE r = NoReply
    <3>1. r.entries = <<>> /\ DOMAIN <<>> = {}
      BY <1>3, <2>2
    <3> QED BY <3>1, EmptySeq DEF Increasing, Elements
  <2> QED BY <2>1, <2>2
<1> DEFINE batch == Valid(r.entries)
<1>6. /\ batch \in Seq(Entries \ Odd) /\ Elements(batch) = Elements(r.entries) \ Odd
      /\ Increasing(batch)
  BY <1>5, ValidFacts
<1>7. reported \in Seq(Entries \ Odd) /\ reported' = reported \o batch
  BY <1>1 DEF IInv, TypeOK
<1> HIDE DEF batch
<1>8. /\ reported' \in Seq(Entries \ Odd) /\ Len(reported') \in Nat
      /\ Elements(reported') = Elements(reported) \cup Elements(batch)
      /\ \A i, j \in DOMAIN reported' : i < j /\ reported'[i] = reported'[j] =>
            \/ i \in DOMAIN reported /\ j \in DOMAIN reported /\ reported[i] = reported[j]
               /\ reported'[i] = reported[i]
            \/ reported'[i] \in Elements(reported) \cap Elements(batch)
  BY <1>6, <1>7, ReportedFacts
<1>9. \A e : /\ Ahead(e)' = Ahead(e) /\ PushedBack(e)' = PushedBack(e)
             /\ PulledForward(e)' = PulledForward(e)
  BY <1>2 DEF Ahead, PushedBack, PulledForward
<1>10. TypeOK'
  <2>1. cursor' \in 0..MaxEntries
    <3>1. CASE r = reply
      BY <1>1, <1>4, <3>1
    <3>2. CASE r = NoReply
      BY <1>1, <1>3, <1>4, <3>2
    <3> QED BY <3>1, <3>2
  <2>2. /\ paging' \in BOOLEAN /\ total' \in Nat \cup {NoTotal}
        /\ outcome' \in (Kinds \ {"None"}) \cup {"none", "ok", "CannotLogin"}
    BY <1>1, <1>2, <1>8 DEF IInv, TypeOK
  <2>3. cut' \in BOOLEAN
    BY <1>1 DEF IInv, TypeOK
  <2> QED BY <1>2, <1>8, <2>1, <2>2, <2>3 DEF IInv, TypeOK
<1>11. Running'
  BY <1>1, <1>2, <1>3 DEF IInv, Running
<1>12. Kept'
  BY <1>2 DEF IInv, Kept
<1>13. OnItsWay'
  BY <1>2, <1>3 DEF OnItsWay
<1>14. Between'
  <2> SUFFICES ASSUME outcome' = "none" PROVE Between'
    BY DEF Between
  <2>1. r = reply /\ r.more /\ cursor' = reply.next
    BY <1>1, <1>3
  <2>2. ASSUME NEW e \in Elements(reported') PROVE PushedBack(e)' \/ Ahead(e)' < cursor'
    <3>1. CASE e \in Elements(reported)
      <4>1. PushedBack(e) \/ Ahead(e) < cursor
        BY <1>2, <3>1 DEF IInv, Between
      <4>2. e \in Entries
        BY <1>7, <3>1, LenProperties, ElementOfSeq DEF Elements
      <4>3. Ahead(e) \in Nat
        BY <4>2, FolderFacts DEF IInv, TypeOK
      <4> QED BY <1>4, <1>9, <2>1, <4>1, <4>3
    <3>2. CASE e \in Elements(batch)
      BY <1>2, <1>6, <1>9, <2>1, <3>2 DEF IInv, OnItsWay
    <3> QED BY <1>8, <2>2, <3>1, <3>2
  <2>3. ASSUME NEW e \in present' \ (Odd \cup removed')
        PROVE  e \in Elements(reported') \/ PulledForward(e)' \/ Ahead(e)' >= cursor'
    BY <1>2, <1>6, <1>8, <1>9, <2>1, <2>3 DEF IInv, OnItsWay
  <2> QED BY <2>2, <2>3 DEF Between
<1>15. ListingUnique'
  <2> SUFFICES ASSUME NEW i \in DOMAIN reported', NEW j \in DOMAIN reported',
                      i < j, reported'[i] = reported'[j]
               PROVE  \E a \in added' : a < reported'[i]
    BY DEF ListingUnique
  <2>1. CASE /\ i \in DOMAIN reported /\ j \in DOMAIN reported /\ reported[i] = reported[j]
             /\ reported'[i] = reported[i]
    BY <1>2, <2>1 DEF IInv, ListingUnique
  <2>2. CASE reported'[i] \in Elements(reported) \cap Elements(batch)
    <3>1. r = reply
      <4> SUFFICES ASSUME r = NoReply PROVE FALSE
        OBVIOUS
      <4>1. Elements(r.entries) = {}
        BY <1>3 DEF Elements
      <4> QED BY <1>6, <2>2, <4>1
    <3>2. PushedBack(reported'[i])
      BY <1>2, <1>6, <2>2, <3>1 DEF IInv, OnItsWay
    <3> QED BY <1>2, <3>2 DEF PushedBack
  <2> QED BY <1>8, <2>1, <2>2
<1>16. ListingComplete'
  <2> SUFFICES ASSUME outcome' = "ok", ~cut', NEW e \in present' \ (Odd \cup removed'),
                      \A i \in DOMAIN reported' : reported'[i] # e
               PROVE  PulledForward(e)'
    BY DEF ListingComplete, PulledForward
  <2>1. r # NoReply
    BY <1>1
  <2>2. outcome' # outcome
    BY <1>2
  <2>3. r = reply /\ ~reply.more
    BY <1>1, <2>1, <2>2
  <2>4. e \notin Elements(reported) /\ e \notin Elements(batch)
    BY <1>8 DEF Elements
  <2> QED BY <1>2, <1>6, <1>9, <2>3, <2>4 DEF IInv, OnItsWay
<1> QED BY <1>10, <1>11, <1>12, <1>13, <1>14, <1>15, <1>16 DEF IInv

-----------------------------------------------------------------------------
\* Whatever is lost and whatever others do, the invariant stays.
THEOREM Invariance == Spec => []IInv
<1>1. IInv /\ [Next]_vars => IInv'
  <2> SUFFICES ASSUME IInv, [Next]_vars PROVE IInv'
    OBVIOUS
  <2>1. CASE UNCHANGED vars
    <3>1. UNCHANGED <<phase, ok, error, folder, exists, paging, cursor, reply,
                      listedDirectory, reported, total, outcome, changes, present, added,
                      removed, cut>>
      BY <2>1 DEF vars, callVars, requestVars, resultVars, history
    <3>2. \A e : /\ Ahead(e)' = Ahead(e) /\ PushedBack(e)' = PushedBack(e)
                 /\ PulledForward(e)' = PulledForward(e)
      BY <3>1 DEF Ahead, PushedBack, PulledForward
    <3>3. TypeOK' /\ Running' /\ Kept'
      BY <3>1 DEF IInv, TypeOK, Running, Kept
    <3>4. Between' /\ OnItsWay'
      BY <3>1, <3>2 DEF IInv, Between, OnItsWay
    <3>5. ListingUnique' /\ ListingComplete'
      BY <3>1 DEF IInv, ListingUnique, ListingComplete
    <3> QED BY <3>3, <3>4, <3>5 DEF IInv
  <2>2. CASE TurnAway \/ Ask
    BY <2>2, AskStep
  <2>3. CASE Page
    BY <2>3, PageStep
  <2>4. CASE Failed
    BY <2>4, FailedStep
  <2>5. CASE Serve
    BY <2>5, ServeStep
  <2>6. CASE Change
    BY <2>6, ChangeStep
  <2> QED BY <2>1, <2>2, <2>3, <2>4, <2>5, <2>6 DEF Next
<1> QED BY <1>1, Initially, PTL DEF Spec

\* Every variable has its type, and only entries that can be shown are reported.
THEOREM TypeCorrect == Spec => []TypeOK
<1>1. IInv => TypeOK
  BY DEF IInv
<1> QED BY <1>1, Invariance, PTL

\* listDir() misses an entry that stays where it is only if one that sorts before
\* it went away meanwhile: no retry and no entry that is added ever hides one.
THEOREM NothingMissed == Spec => []ListingComplete
<1>1. IInv => ListingComplete
  BY DEF IInv
<1> QED BY <1>1, Invariance, PTL

\* listDir() shows an entry twice only if one that sorts before it was added
\* meanwhile.
THEOREM NothingTwice == Spec => []ListingUnique
<1>1. IInv => ListingUnique
  BY DEF IInv
<1> QED BY <1>1, Invariance, PTL

-----------------------------------------------------------------------------
(* How long a listing may take. *)

\* The steps that are left at most until a page moves the cursor on or the listing is
\* over: the call that asks for a page, and its return.
Stage == IF outcome # "none" THEN 0 ELSE IF phase = "running" THEN 1 ELSE 2

\* No listing goes on for ever, however many pages it is told to ask for: each call that
\* returns moves the cursor on, never beyond the entries there are, or ends the listing.
\* It is the server and the other clients alone that do not count. That calls are made
\* and return is what ListingReturns assumes fairness for.
THEOREM ListingIsBounded ==
    Spec => /\ [](cursor \in 0..MaxEntries /\ Stage \in 0..2)
            /\ [](Stage = 0 <=> outcome # "none")
            /\ [][\/ cursor' > cursor
                  \/ cursor' = cursor /\ Stage' < Stage
                  \/ cursor' = cursor /\ Stage' = Stage /\ (Serve \/ Change)]_vars
<1>1. IInv => /\ cursor \in 0..MaxEntries /\ Stage \in 0..2
              /\ Stage = 0 <=> outcome # "none"
  BY DEF IInv, TypeOK, Stage
<1>2. ASSUME IInv, [Next]_vars
      PROVE  [\/ cursor' > cursor
              \/ cursor' = cursor /\ Stage' < Stage
              \/ cursor' = cursor /\ Stage' = Stage /\ (Serve \/ Change)]_vars
  <2> SUFFICES ASSUME Next
               PROVE  \/ cursor' > cursor
                      \/ cursor' = cursor /\ Stage' < Stage
                      \/ cursor' = cursor /\ Stage' = Stage /\ (Serve \/ Change)
    BY <1>2
  <2>1. CASE TurnAway \/ Ask
    <3>1. /\ cursor' = cursor /\ outcome = "none" /\ phase = "idle"
          /\ outcome' # "none" \/ phase' = "running"
      BY <2>1 DEF TurnAway, Ask, Call!Begin, requestVars
    <3> QED BY <3>1 DEF Stage
  <2>2. CASE Page
    <3>1. phase = "running" /\ outcome = "none" /\ reply.status = 200
      BY <1>2, <2>2 DEF Page, IInv, Running
    <3>2. PICK r \in {reply, NoReply} :
             IF HasMore(r) THEN cursor' = NextCursor(r)
             ELSE outcome' = "ok" /\ UNCHANGED requestVars
      BY <2>2 DEF Page
    <3>3. CASE HasMore(r)
      <4>1. r = reply /\ reply.more = TRUE
        BY <1>2, <3>1, <3>2, <3>3 DEF HasMore, NoReply, IInv, OnItsWay
      <4> QED BY <1>2, <3>1, <3>2, <3>3, <4>1 DEF NextCursor, IInv, OnItsWay
    <3>4. CASE ~HasMore(r)
      BY <3>1, <3>2, <3>4 DEF Stage, requestVars
    <3> QED BY <3>3, <3>4
  <2>3. CASE Failed
    <3>1. /\ phase = "running" /\ outcome = "none" /\ cursor' = cursor
          /\ outcome' \in {"Network", "Authentication", "RateLimited", "Server"} \cup Refusals
      BY <1>2, <2>3 DEF Failed, IInv, Running, requestVars, Call!Fail
    <3>2. outcome' # "none"
      BY <3>1 DEF Refusals, KindOf, SummaryKind
    <3> QED BY <3>1, <3>2 DEF Stage
  <2>4. CASE Serve \/ Change
    <3>1. UNCHANGED <<cursor, outcome, phase>>
      BY <2>4 DEF Serve, Change, callVars, requestVars, resultVars
    <3> QED BY <2>4, <3>1 DEF Stage
  <2> QED BY <2>1, <2>2, <2>3, <2>4 DEF Next
<1>3. IInv /\ [Next]_vars => [\/ cursor' > cursor
                              \/ cursor' = cursor /\ Stage' < Stage
                              \/ cursor' = cursor /\ Stage' = Stage /\ (Serve \/ Change)]_vars
  BY <1>2
<1> QED BY <1>1, <1>3, Invariance, PTL DEF Spec

\* Listing.tla rests on what ApiCall promises and on no more: between two steps of the
\* server and of other clients, a listing is calls that begin, succeed or fail as those
\* of DropboxRequest do, which implements ApiCall.
THEOREM CallsOnly == Spec => Call!Spec
<1>1. Init => Call!Init
  BY DEF Init
<1>2. ASSUME IInv, [Next]_vars PROVE [Call!Next]_(Call!vars)
  <2>1. CASE UNCHANGED callVars
    BY <2>1 DEF callVars, Call!vars
  <2>2. CASE Ask
    BY <2>2 DEF Ask, Call!Next
  <2>3. CASE Page
    BY <2>3 DEF Page, Call!Next
  <2>4. CASE Failed
    <3>1. PICK kind \in {"Network", "Authentication", "RateLimited", "Server"} \cup Refusals :
             Call!Fail(kind)
      BY <2>4 DEF Failed
    <3>2. \A summary : KindOf(409, FALSE, summary) \in Kinds \ {"None"}
      BY DEF KindOf, SummaryKind, Kinds
    <3>3. kind \in Kinds \ {"None"}
      <4>1. CASE kind \in Refusals
        BY <3>2, <4>1 DEF Refusals
      <4>2. CASE kind \in {"Network", "Authentication", "RateLimited", "Server"}
        BY <4>2 DEF Kinds
      <4> QED BY <3>1, <4>1, <4>2
    <3> QED BY <3>1, <3>3 DEF Call!Next
  <2> QED BY <1>2, <2>1, <2>2, <2>3, <2>4 DEF Next, TurnAway, Serve, Change, vars
<1>3. IInv /\ [Next]_vars => [Call!Next]_(Call!vars)
  BY <1>2
<1> QED BY <1>1, <1>3, Invariance, PTL DEF Spec, Call!Spec
==============================================================================
