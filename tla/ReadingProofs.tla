---------------------------- MODULE ReadingProofs ----------------------------
(***************************************************************************)
(* What DropboxWorker::stat(), mimetype(), get() and fileSystemFreeSpace()  *)
(* answer was true of the account while they ran, proved for every path,    *)
(* every size of a file and every number of changes by other clients.       *)
(*                                                                         *)
(* Two arguments meet. One is about paths: apiPath() makes the Spot of a    *)
(* URL if and only if the URL names it (PathFacts), so that the server      *)
(* looks up what was meant. The other is about the order of what a job is   *)
(* told: type, size and data (Ordered), of one version of the file          *)
(* (OneVersion), which is whole unless the reply broke off (WholeVersion).  *)
(***************************************************************************)
EXTENDS Reading, RequestPolicyProofs, SequenceTheorems, WellFoundedInduction

(* Paths. *)

\* A set of numbers up to a bound has a greatest one: where a path ends once the
\* slashes at its end are chopped off.
LEMMA MaxFacts ==
    ASSUME NEW k \in Nat, NEW S, S \subseteq 1..k, S # {}
    PROVE  Max(S) \in S /\ \A y \in S : Max(S) >= y
<1> DEFINE T == {k - x : x \in S}
<1>1. T \subseteq Nat /\ T # {}
  <2>1. \A x \in S : x \in 1..k
    OBVIOUS
  <2>2. \A x \in S : k - x \in Nat
    BY <2>1
  <2> QED BY <2>2
<1>2. PICK t \in T : \A y \in T : ~(<<y, t>> \in OpToRel(<, Nat))
  <2> HIDE DEF T
  <2> QED BY <1>1, NatLessThanWellFounded, WFMin
<1>3. \A y \in T : ~(y < t)
  BY <1>1, <1>2 DEF OpToRel
<1>4. PICK x \in S : t = k - x
  OBVIOUS
<1>5. \A y \in S : x >= y
  <2> SUFFICES ASSUME NEW y \in S PROVE x >= y
    OBVIOUS
  <2>1. k - y \in T
    OBVIOUS
  <2> QED BY <1>3, <1>4, <2>1
<1> HIDE DEF T
<1> QED BY <1>5 DEF Max

\* What is left of a path without the slashes at its end.
LEMMA ChoppedFacts ==
    ASSUME NEW u \in Seq(STRING)
    PROVE  LET letters == {i \in DOMAIN u : u[i] # Slash}
               end == IF letters = {} THEN 0 ELSE Max(letters)
               chopped == SubSeq(u, 1, end)
           IN  /\ end \in 0..Len(u) /\ (letters = {} <=> end = 0)
               /\ \A i \in end + 1..Len(u) : u[i] = Slash
               /\ end # 0 => u[end] # Slash
               /\ chopped \in Seq(STRING) /\ Len(chopped) = end
               /\ \A i \in 1..end : chopped[i] = u[i]
<1> DEFINE letters == {i \in DOMAIN u : u[i] # Slash}
           end == IF letters = {} THEN 0 ELSE Max(letters)
           chopped == SubSeq(u, 1, end)
<1>1. DOMAIN u = 1..Len(u) /\ Len(u) \in Nat /\ \A i \in 1..Len(u) : u[i] \in STRING
  BY LenProperties, ElementOfSeq
<1>2. letters # {} => Max(letters) \in letters /\ \A y \in letters : Max(letters) >= y
  BY <1>1, MaxFacts
<1>3. /\ end \in 0..Len(u) /\ (letters = {} <=> end = 0)
      /\ \A y \in letters : end >= y
      /\ end # 0 => u[end] # Slash
  BY <1>1, <1>2
<1>4. \A i \in end + 1..Len(u) : u[i] = Slash
  <2> SUFFICES ASSUME NEW i \in end + 1..Len(u), u[i] # Slash PROVE FALSE
    OBVIOUS
  <2>1. i \in letters
    BY <1>1, <1>3
  <2> HIDE DEF letters, end
  <2>2. end \in Nat /\ end >= i
    BY <1>1, <1>3, <2>1
  <2> QED BY <2>2
<1> HIDE DEF letters, end
<1>5. chopped \in Seq(STRING) /\ Len(chopped) = end /\ \A i \in 1..end : chopped[i] = u[i]
  <2>1. end \in Int /\ end \in Nat /\ 1 \in Int /\ \A i \in 1..end : u[i] \in STRING
    BY <1>1, <1>3
  <2>2. /\ chopped \in Seq(STRING)
        /\ Len(chopped) = IF 1 <= end THEN end - 1 + 1 ELSE 0
        /\ \A i \in 1..end - 1 + 1 : chopped[i] = u[1 + i - 1]
    BY <2>1, SubSeqProperties
  <2> QED BY <2>1, <2>2
<1> QED BY <1>3, <1>4, <1>5 DEF letters, end

\* A path with a slash put in front of it.
LEMMA SlashInFront ==
    ASSUME NEW Letters, Slash \in Letters, NEW c \in Seq(Letters)
    PROVE  /\ <<Slash>> \o c \in Seq(Letters)
           /\ Len(<<Slash>> \o c) = Len(c) + 1 /\ (<<Slash>> \o c)[1] = Slash
           /\ \A i \in 1..Len(c) : (<<Slash>> \o c)[i + 1] = c[i]
<1>1. <<Slash>> \in Seq(Letters) /\ Len(<<Slash>>) = 1 /\ <<Slash>>[1] = Slash
  OBVIOUS
<1>2. Len(c) \in Nat
  BY LenProperties
<1>3. /\ <<Slash>> \o c \in Seq(Letters)
      /\ Len(<<Slash>> \o c) = Len(<<Slash>>) + Len(c)
      /\ \A i \in 1..Len(<<Slash>>) + Len(c) :
            (<<Slash>> \o c)[i] = IF i <= Len(<<Slash>>) THEN <<Slash>>[i]
                                  ELSE c[i - Len(<<Slash>>)]
  BY <1>1, ConcatProperties
<1> DEFINE p == <<Slash>> \o c
<1>4. \A i \in 1..1 + Len(c) : p[i] = IF i <= 1 THEN Slash ELSE c[i - 1]
  BY <1>1, <1>3
<1> HIDE DEF p
<1>5. p[1] = Slash /\ \A i \in 1..Len(c) : p[i + 1] = c[i]
  <2>1. p[1] = Slash
    BY <1>2, <1>4
  <2>2. ASSUME NEW i \in 1..Len(c) PROVE p[i + 1] = c[i]
    <3>1. i + 1 \in 1..1 + Len(c) /\ ~(i + 1 <= 1) /\ i + 1 - 1 = i
      BY <1>2
    <3> QED BY <1>4, <3>1
  <2> QED BY <2>1, <2>2
<1> QED BY <1>1, <1>2, <1>3, <1>5 DEF p

\* apiPath() makes the Spot of a URL if and only if the URL names it, and the root
\* of nothing but slashes.
LEMMA PathFacts ==
    ASSUME NEW u \in Seq(STRING)
    PROVE  /\ ApiPath(u) = Spot <=> Names(u)
           /\ ApiPath(u) = <<>> => \A i \in DOMAIN u : u[i] = Slash
<1> DEFINE letters == {i \in DOMAIN u : u[i] # Slash}
           end == IF letters = {} THEN 0 ELSE Max(letters)
           chopped == SubSeq(u, 1, end)
<1>1. /\ u \in Seq(STRING) /\ Spot \in Seq(STRING) /\ Len(Spot) > 1
      /\ Spot[1] = Slash /\ Spot[2] # Slash /\ Spot[Len(Spot)] # Slash
  <2>1. Head(Spot) = Spot[1] /\ Last(Spot) = Spot[Len(Spot)]
    BY ReadingAssumption DEF Last
  <2> QED BY <2>1, ReadingAssumption
<1>2. Len(u) \in Nat /\ Len(Spot) \in Nat /\ DOMAIN u = 1..Len(u)
      /\ (\A i \in 1..Len(u) : u[i] \in STRING) /\ Slash \in STRING
  BY <1>1, LenProperties, ElementOfSeq
<1>3. /\ end \in 0..Len(u) /\ (letters = {} <=> end = 0)
      /\ \A i \in end + 1..Len(u) : u[i] = Slash
      /\ end # 0 => u[end] # Slash
      /\ chopped \in Seq(STRING) /\ Len(chopped) = end
      /\ \A i \in 1..end : chopped[i] = u[i]
  BY <1>1, ChoppedFacts
<1>4. ApiPath(u) = IF chopped = <<>> \/ Head(chopped) = Slash THEN chopped
                   ELSE <<Slash>> \o chopped
  BY DEF ApiPath
<1>5. \A i \in DOMAIN u : i \in letters <=> u[i] # Slash
  OBVIOUS
<1> HIDE DEF letters, end
<1>6. /\ <<Slash>> \o chopped \in Seq(STRING)
      /\ Len(<<Slash>> \o chopped) = end + 1
      /\ \A i \in 1..end : (<<Slash>> \o chopped)[i + 1] = chopped[i]
  BY <1>2, <1>3, SlashInFront
<1>7. chopped = <<>> <=> end = 0
  BY <1>2, <1>3, LenProperties, EmptySeq
<1>8. end # 0 => Head(chopped) = u[1]
  BY <1>2, <1>3, <1>7
<1>9. ASSUME ApiPath(u) = Spot PROVE Names(u)
  <2>1. Spot \in {chopped, <<Slash>> \o chopped}
    BY <1>4, <1>9
  <2> QED BY <1>3, <2>1 DEF Names
<1>10. ASSUME Names(u) PROVE ApiPath(u) = Spot
  <2>1. PICK n \in 0..Len(u) : /\ \A i \in n + 1..Len(u) : u[i] = Slash
                               /\ Spot \in {SubSeq(u, 1, n), <<Slash>> \o SubSeq(u, 1, n)}
    BY <1>10 DEF Names
  <2> DEFINE sub == SubSeq(u, 1, n)
  <2>2. sub \in Seq(STRING) /\ Len(sub) = n /\ \A i \in 1..n : sub[i] = u[i]
    <3>1. n \in Int /\ n \in Nat /\ 1 \in Int /\ \A i \in 1..n : u[i] \in STRING
      BY <1>2
    <3>2. /\ sub \in Seq(STRING) /\ Len(sub) = IF 1 <= n THEN n - 1 + 1 ELSE 0
          /\ \A i \in 1..n - 1 + 1 : sub[i] = u[1 + i - 1]
      BY <3>1, SubSeqProperties
    <3> QED BY <3>1, <3>2
  <2>3. /\ Len(<<Slash>> \o sub) = n + 1
        /\ \A i \in 1..n : (<<Slash>> \o sub)[i + 1] = sub[i]
    BY <1>2, <2>2, SlashInFront
  <2> HIDE DEF sub
  <2>4. n # 0 /\ u[n] # Slash
    <3>1. CASE Spot = sub
      BY <1>1, <2>2, <3>1
    <3>2. CASE Spot = <<Slash>> \o sub
      <4>1. n > 0 /\ n \in 1..n
        BY <1>1, <2>2, <2>3, <3>2
      <4>2. Spot[n + 1] = u[n] /\ Len(Spot) = n + 1
        BY <2>2, <2>3, <3>2, <4>1
      <4> QED BY <1>1, <4>1, <4>2
    <3> QED BY <2>1, <3>1, <3>2 DEF sub
  <2>5. end = n
    <3>1. end > n => end \in n + 1..Len(u) /\ end # 0
      BY <1>2, <1>3
    <3>2. end < n => n \in end + 1..Len(u)
      BY <1>2, <1>3
    <3>3. ~(end > n) /\ ~(end < n)
      BY <1>3, <2>1, <2>4, <3>1, <3>2
    <3> QED BY <1>2, <1>3, <3>3
  <2>6. chopped = sub
    BY <2>5 DEF sub
  <2>7. CASE Spot = sub
    <3>1. Head(chopped) = Slash
      BY <1>1, <1>8, <2>2, <2>4, <2>5, <2>7
    <3> QED BY <1>4, <2>6, <2>7, <3>1
  <2>8. CASE Spot = <<Slash>> \o sub
    <3>1. 1 \in 1..n
      BY <2>4
    <3>2. Spot[2] = u[1]
      <4>1. Spot[1 + 1] = sub[1] /\ sub[1] = u[1]
        BY <2>2, <2>3, <2>8, <3>1
      <4> QED BY <4>1
    <3>3. chopped # <<>> /\ Head(chopped) # Slash
      BY <1>1, <1>7, <1>8, <2>4, <2>5, <3>2
    <3> QED BY <1>4, <2>6, <2>8, <3>3
  <2> QED BY <2>1, <2>7, <2>8 DEF sub
<1>11. ASSUME ApiPath(u) = <<>> PROVE \A i \in DOMAIN u : u[i] = Slash
  <2>1. <<Slash>> \o chopped # <<>>
    BY <1>3, <1>6
  <2>2. end = 0
    BY <1>4, <1>7, <1>11, <2>1
  <2> QED BY <1>3, <1>5, <2>2
<1> QED BY <1>9, <1>10, <1>11

-----------------------------------------------------------------------------
(* The answers. *)

\* An entry that the server was asked about and did not refuse, at a moment of
\* the call.
ServedAs(item) == \E w \in seen : Refused(w) = {} /\ w.entry = item

\* What a job that reads a file is told: pairs of what it is and how much of it.
Messages == {"mime", "total", "data"} \X ({"guess"} \cup Nat)

\* The type is told first, then the size, then nothing but data; the size is only
\* told together with data.
Ordered ==
    /\ told \in Seq(Messages) /\ Len(told) \in Nat \ {0, 2}
    /\ told[1] = <<"mime", "guess">>
    /\ \A i \in DOMAIN told : i > 1 => told[i][1] = IF i = 2 THEN "total" ELSE "data"

\* The size that is told is that of the version that is handed over, or none.
Sized == Len(told) > 2 => told[2][2] \in {0, body.size}

\* Only the last message can be the end of the stream, and is if get() succeeded.
Ended == \A i \in DOMAIN told : told[i] = <<"data", 0>> <=> Over /\ code = "ok" /\ i = Len(told)

\* Nothing but the type was told if get() fails, or before the first data.
Announced ==
    /\ Over /\ code # "ok" => Len(told) = 1
    /\ ~Over => (announced = 0 <=> Len(told) = 1)

Streaming == op = "get" /\ told # <<>> => Ordered /\ Sized /\ Ended /\ Announced

\* What the call has handed over is part of one version of the file.
OneVersion ==
    phase = "running" =>
        /\ streaming <=> op = "get"
        /\ op = "get" => told # <<>>
        /\ announced = 0 => delivered = 0
        /\ announced = 1 => op = "get" /\ ServedAs(body) /\ delivered <= body.size

\* Of a whole reply, all of it.
WholeVersion ==
    op = "get" /\ Over /\ code = "ok" => ServedAs(body) /\ (~cut => delivered = body.size)

IInv == TypeOK /\ Streaming /\ OneVersion /\ WholeVersion /\ AnswerWasTrue /\ SpaceWasTrue

\* Why the server refuses what it is asked for: another name, an entry that is
\* gone, or a folder that was to be downloaded.
LEMMA RefusedFacts ==
    ASSUME NEW w \in Worlds
    PROVE  /\ Refused(w) \in {{"not_found"}, {"not_file"}, {}}
           /\ Refused(w) = {"not_found"} => ApiPath(url) # Spot \/ w.entry = Absent
           /\ Refused(w) = {} => /\ ApiPath(url) = Spot /\ IsValid(w.entry)
                                 /\ op = "get" => w.entry.kind = "file"
<1>1. w.entry \in Things
  BY DEF Worlds
<1>2. w.entry # Absent => IsValid(w.entry) /\ w.entry.kind \in {"file", "folder"}
  BY <1>1 DEF Things, Folder, IsValid
<1>3. {"not_found"} # {} /\ {"not_file"} # {} /\ {"not_found"} # {"not_file"}
  OBVIOUS
<1>4. CASE ApiPath(url) # Spot \/ w.entry = Absent
  BY <1>3, <1>4 DEF Refused
<1>5. CASE ApiPath(url) = Spot /\ w.entry # Absent /\ op = "get" /\ w.entry.kind = "folder"
  BY <1>3, <1>5 DEF Refused
<1>6. CASE ApiPath(url) = Spot /\ w.entry # Absent /\ ~(op = "get" /\ w.entry.kind = "folder")
  BY <1>2, <1>3, <1>6 DEF Refused
<1> QED BY <1>4, <1>5, <1>6

\* Every failure has a KIO error of its own, and "does not exist" is that of one
\* kind alone.
LEMMA KioFacts ==
    ASSUME NEW kind \in Kinds \ {"None"}
    PROVE  /\ ToKioError(kind) \in Codes \ {"none", "ok", "NoError"}
           /\ ToKioError(kind) = "DoesNotExist" => kind = "NotFound"
BY DEF Kinds, ToKioError, Codes

\* A call ends in an error of some kind; that nothing was found only if the server
\* said so of an entry, at some moment of the call.
LEMMA RefusalsFacts ==
    ASSUME seen \subseteq Worlds, NEW kind \in Refusals
    PROVE  /\ kind \in Kinds \ {"None"}
           /\ kind = "NotFound" => op # "freeSpace" /\ \E w \in seen : Refused(w) = {"not_found"}
<1> DEFINE others == {"Network", "Authentication", "RateLimited", "Server"}
           asked == IF op = "freeSpace" THEN {} ELSE seen
           summaries == {Refused(w) : w \in asked} \ {{}}
<1>1. Refusals = others \cup UNION {{KindOf(409, FALSE, s), KindOf(409, FALSE, {})} :
                                       s \in summaries}
  BY DEF Refusals
<1>2. CASE kind \in others
  BY <1>2 DEF Kinds
<1>3. CASE kind \notin others
  <2> HIDE DEF others, summaries
  <2>1. PICK s \in summaries : kind = KindOf(409, FALSE, s) \/ kind = KindOf(409, FALSE, {})
    <3>1. PICK pair \in {{KindOf(409, FALSE, s), KindOf(409, FALSE, {})} : s \in summaries} :
            kind \in pair
      BY <1>1, <1>3
    <3>2. PICK s \in summaries : pair = {KindOf(409, FALSE, s), KindOf(409, FALSE, {})}
      OBVIOUS
    <3> QED BY <3>1, <3>2
  <2>2. PICK w \in asked : s = Refused(w) /\ s # {}
    BY <2>1 DEF summaries
  <2>3. w \in seen /\ w \in Worlds /\ op # "freeSpace"
    BY <2>2
  <2>4. s = {"not_found"} \/ s = {"not_file"}
    BY <2>2, <2>3, RefusedFacts
  <2>5. KindOf(409, FALSE, {}) = "Unknown" /\ KindOf(409, FALSE, {"not_file"}) = "Unknown"
        /\ KindOf(409, FALSE, {"not_found"}) = "NotFound"
    BY DEF KindOf, SummaryKind
  <2>6. kind \in {"Unknown", "NotFound"} /\ (kind = "NotFound" => s = {"not_found"})
    <3>1. CASE s = {"not_found"}
      BY <2>1, <2>5, <3>1
    <3>2. CASE s = {"not_file"}
      BY <2>1, <2>5, <3>2
    <3> QED BY <2>4, <3>1, <3>2
  <2> QED BY <2>2, <2>3, <2>6 DEF Kinds
<1> QED BY <1>2, <1>3

\* One message more.
LEMMA ToldFacts ==
    ASSUME NEW s \in Seq(Messages), NEW x \in Messages
    PROVE  /\ s \o <<x>> \in Seq(Messages) /\ Len(s \o <<x>>) = Len(s) + 1
           /\ (s \o <<x>>)[Len(s) + 1] = x /\ \A i \in 1..Len(s) : (s \o <<x>>)[i] = s[i]
<1> DEFINE t == s \o <<x>>
<1>1. <<x>> \in Seq(Messages) /\ Len(<<x>>) = 1 /\ <<x>>[1] = x /\ Len(s) \in Nat
  BY LenProperties
<1>2. /\ t \in Seq(Messages) /\ Len(t) = Len(s) + Len(<<x>>)
      /\ \A i \in 1..Len(s) + Len(<<x>>) : t[i] = IF i <= Len(s) THEN s[i] ELSE <<x>>[i - Len(s)]
  BY <1>1, ConcatProperties
<1> HIDE DEF t
<1>3. Len(s) + 1 - Len(s) = 1 /\ Len(s) + 1 \in 1..Len(s) + 1 /\ ~(Len(s) + 1 <= Len(s))
  BY <1>1
<1>4. t[Len(s) + 1] = x
  BY <1>1, <1>2, <1>3
<1>5. \A i \in 1..Len(s) : t[i] = s[i]
  BY <1>1, <1>2
<1> QED BY <1>1, <1>2, <1>4, <1>5 DEF t

\* What is unchanged when nothing was asked that was not asked before.
LEMMA SameQuestion ==
    ASSUME UNCHANGED <<op, url>>
    PROVE  \A w : Refused(w)' = Refused(w)
BY DEF Refused

-----------------------------------------------------------------------------
(* The invariant. *)

\* Whatever is asked for is a path.
LEMMA UrlType == TypeOK => url \in Seq(STRING)
<1>1. <<>> \in Seq(STRING)
  BY EmptySeq
<1> QED BY <1>1, ReadingAssumption DEF TypeOK

\* At first nothing was asked.
LEMMA Initially == Init => IInv
<1> SUFFICES ASSUME Init PROVE IInv
  OBVIOUS
<1>1. /\ phase = "idle" /\ streaming = FALSE /\ announced = 0 /\ delivered = 0
      /\ ok = TRUE /\ error = "None" /\ world \in Worlds /\ op = "none" /\ url = <<>>
      /\ told = <<>> /\ code = "ok" /\ body = Absent /\ changes = 0 /\ seen = {} /\ cut = FALSE
  BY DEF Init, Call!Init
<1>2. TypeOK
  <2>1. delivered \in 0..MaxBody /\ changes \in 0..MaxChanges
    BY <1>1, ReadingAssumption
  <2>2. code \in Codes \ {"NoError"} /\ error \in Kinds /\ body \in Things
    BY <1>1 DEF Codes, Kinds, Things
  <2> QED BY <1>1, <2>1, <2>2 DEF TypeOK
<1>3. Streaming /\ OneVersion /\ WholeVersion /\ SpaceWasTrue
  BY <1>1 DEF Streaming, OneVersion, WholeVersion, SpaceWasTrue
<1>4. AnswerWasTrue
  <2>1. ~HasName
    BY <1>1 DEF HasName
  <2> QED BY <2>1 DEF AnswerWasTrue
<1> QED BY <1>2, <1>3, <1>4 DEF IInv

\* The job is turned away or answered from what is known of the root: a URL that
\* is taken for the root has no name.
LEMMA LocalStep == ASSUME IInv, BeginLocal PROVE IInv'
<1>1. /\ phase = "idle" /\ UNCHANGED <<phase, streaming, announced, delivered, ok, error>>
      /\ UNCHANGED <<world, changes>>
      /\ op' \in Operations /\ url' \in Urls
      /\ body' = Absent /\ seen' = {} /\ cut' = FALSE
  BY DEF BeginLocal, callVars
<1>2. \/ code' = "CannotLogin" /\ told' = <<>>
      \/ /\ op' \in {"stat", "mimetype"} /\ ApiPath(url') = <<>> /\ code' = "ok"
      \/ op' = "get" /\ told' = <<>> /\ code' = "IsDirectory"
  BY DEF BeginLocal, RootEntry, Operations
<1>3. TypeOK'
  <2>1. code' \in Codes \ {"NoError"} /\ code' # "none" /\ Absent \in Things
    BY <1>2 DEF Codes, Things
  <2> QED BY <1>1, <2>1 DEF IInv, TypeOK
<1>4. Streaming' /\ OneVersion' /\ WholeVersion' /\ SpaceWasTrue'
  <2>1. (op' = "get" => told' = <<>> /\ code' # "ok") /\ (op' = "freeSpace" => code' # "ok")
    BY <1>2
  <2> QED BY <1>1, <2>1 DEF Streaming, OneVersion, WholeVersion, SpaceWasTrue
<1>5. AnswerWasTrue'
  <2> SUFFICES ASSUME HasName' PROVE code' # "DoesNotExist" /\ code' # "ok"
    BY DEF AnswerWasTrue
  <2>1. ApiPath(url') # <<>>
    BY <1>1, ReadingAssumption, PathFacts DEF HasName
  <2> QED BY <1>2, <2>1
<1> QED BY <1>3, <1>4, <1>5 DEF IInv

\* A call begins.
LEMMA CallStep == ASSUME IInv, BeginCall PROVE IInv'
<1>1. /\ phase' = "running" /\ streaming' = (op' = "get") /\ announced' = 0 /\ delivered' = 0
      /\ ok' = FALSE /\ error' = "None" /\ op' \in Operations /\ url' \in Urls
      /\ code' = "none" /\ body' = Absent /\ seen' = {world} /\ cut' = FALSE
      /\ told' = IF op' = "get" THEN <<<<"mime", "guess">>>> ELSE <<>>
      /\ UNCHANGED <<world, changes>>
  BY DEF BeginCall, Call!Begin
<1>2. TypeOK'
  <2>1. 0 \in 0..MaxBody /\ Absent \in Things /\ "None" \in Kinds /\ "none" \in Codes \ {"NoError"}
    BY ReadingAssumption DEF Things, Kinds, Codes
  <2> QED BY <1>1, <2>1 DEF IInv, TypeOK
<1>3. Streaming'
  <2> SUFFICES ASSUME op' = "get" PROVE Ordered' /\ Sized' /\ Ended' /\ Announced'
    BY DEF Streaming
  <2>1. <<"mime", "guess">> \in Messages
    BY DEF Messages
  <2>2. told' \in Seq(Messages) /\ Len(told') = 1 /\ told'[1] = <<"mime", "guess">>
        /\ DOMAIN told' = {1}
    BY <1>1, <2>1
  <2>3. <<"mime", "guess">> # <<"data", 0>>
    OBVIOUS
  <2> QED BY <1>1, <2>2, <2>3 DEF Ordered, Sized, Ended, Announced, Over
<1>4. OneVersion' /\ WholeVersion'
  <2>1. op' = "get" => told' # <<>>
    BY <1>1
  <2>2. streaming' <=> op' = "get"
    BY <1>1
  <2>3. phase' # "idle" /\ announced' = 0 /\ announced' # 1 /\ delivered' = 0
    BY <1>1
  <2> QED BY <2>1, <2>2, <2>3 DEF OneVersion, WholeVersion, Over
<1>5. AnswerWasTrue' /\ SpaceWasTrue'
  BY <1>1 DEF AnswerWasTrue, SpaceWasTrue, Over
<1> QED BY <1>2, <1>3, <1>4, <1>5 DEF IInv

\* The call fails: before anything but the type of a file was told, and as "does
\* not exist" only if the server did not have the entry.
LEMMA FailedStep == ASSUME IInv, CallFailed PROVE IInv'
<1>1. PICK kind \in Refusals : Call!Fail(kind) /\ code' = ToKioError(kind)
  BY DEF CallFailed
<1>2. /\ phase = "running" /\ phase' = "idle" /\ announced = 0 /\ error' = kind
      /\ UNCHANGED <<streaming, announced, delivered, ok>>
      /\ UNCHANGED <<world, op, url, told, body, changes, seen, cut>>
  BY <1>1 DEF CallFailed, Call!Fail
<1>3. /\ kind \in Kinds \ {"None"}
      /\ kind = "NotFound" => op # "freeSpace" /\ \E w \in seen : Refused(w) = {"not_found"}
  BY RefusalsFacts DEF IInv, TypeOK
<1>4. /\ code' \in Codes \ {"none", "ok", "NoError"}
      /\ code' = "DoesNotExist" => kind = "NotFound"
  BY <1>1, <1>3, KioFacts
<1>5. TypeOK'
  BY <1>2, <1>3, <1>4 DEF IInv, TypeOK
<1>6. Streaming'
  <2> SUFFICES ASSUME op = "get", told # <<>> PROVE Ordered' /\ Sized' /\ Ended' /\ Announced'
    BY <1>2 DEF Streaming
  <2>1. Ordered /\ Announced
    BY DEF IInv, Streaming
  <2>2. Len(told) = 1 /\ told[1] = <<"mime", "guess">> /\ DOMAIN told = 1..Len(told)
    BY <1>2, <2>1, LenProperties DEF Ordered, Announced, Over
  <2>3. <<"mime", "guess">> # <<"data", 0>>
    OBVIOUS
  <2>4. Ended'
    BY <1>2, <1>4, <2>2, <2>3 DEF Ended
  <2>5. Ordered' /\ Sized' /\ Announced'
    BY <1>2, <1>4, <2>1, <2>2 DEF Ordered, Sized, Announced, Over
  <2> QED BY <2>4, <2>5
<1>7. OneVersion' /\ WholeVersion' /\ SpaceWasTrue'
  BY <1>2, <1>4 DEF OneVersion, WholeVersion, SpaceWasTrue
<1>8. AnswerWasTrue'
  <2> SUFFICES ASSUME code' = "DoesNotExist", Names(url) PROVE \E w \in seen : w.entry = Absent
    BY <1>2, <1>4 DEF AnswerWasTrue
  <2>1. PICK w \in seen : Refused(w) = {"not_found"}
    BY <1>3, <1>4
  <2>2. url \in Seq(STRING) /\ w \in Worlds
    BY UrlType DEF IInv, TypeOK
  <2>3. ApiPath(url) = Spot
    BY <2>2, PathFacts
  <2> QED BY <2>1, <2>2, <2>3, RefusedFacts
<1> QED BY <1>5, <1>6, <1>7, <1>8 DEF IInv

\* stat() or mimetype() has its reply: an entry of this name as it was, or nothing
\* if the reply broke off.
LEMMA MetadataStep == ASSUME IInv, Metadata PROVE IInv'
<1>1. PICK w \in Served, whole \in BOOLEAN :
        /\ cut' = ~whole
        /\ IF IsValid(Parsed(w.entry, whole))
           THEN told' = <<Described(Parsed(w.entry, whole))>> /\ code' = "ok"
           ELSE code' = "DoesNotExist" /\ UNCHANGED told
  BY DEF Metadata
<1>2. /\ op \in {"stat", "mimetype"} /\ phase = "running" /\ phase' = "idle" /\ ok' = TRUE
      /\ announced' = IF streaming THEN 1 ELSE announced
      /\ UNCHANGED <<streaming, delivered, error>>
      /\ UNCHANGED <<world, op, url, body, changes, seen>>
  BY DEF Metadata, Call!Succeed
<1>3. w \in seen /\ w \in Worlds /\ Refused(w) = {}
  BY DEF IInv, TypeOK, Served
<1>4. ApiPath(url) = Spot /\ IsValid(w.entry)
  BY <1>3, RefusedFacts
<1>5. Names(url)
  BY <1>4, UrlType, PathFacts DEF IInv
<1>6. \/ whole /\ code' = "ok" /\ told' = <<Described(w.entry)>>
      \/ cut' /\ code' = "DoesNotExist"
  <2>1. CASE whole
    BY <1>1, <1>4, <2>1 DEF Parsed
  <2>2. CASE ~whole
    <3>1. ~IsValid(Absent)
      BY DEF IsValid, Absent
    <3> QED BY <1>1, <2>2, <3>1 DEF Parsed
  <2> QED BY <2>1, <2>2
<1>7. TypeOK'
  <2>1. announced' \in {0, 1} /\ cut' \in BOOLEAN
    BY <1>1, <1>2 DEF IInv, TypeOK
  <2>2. code' \in Codes \ {"NoError"} /\ code' # "none"
    BY <1>6 DEF Codes
  <2> QED BY <1>2, <2>1, <2>2 DEF IInv, TypeOK
<1>8. Streaming' /\ OneVersion' /\ WholeVersion' /\ SpaceWasTrue'
  BY <1>2 DEF Streaming, OneVersion, WholeVersion, SpaceWasTrue
<1>9. AnswerWasTrue'
  <2>1. Described(w.entry)' = Described(w.entry)
    BY <1>2 DEF Described
  <2>2. code' = "ok" => told' = <<Described(w.entry)>>
    BY <1>6
  <2>3. code' = "DoesNotExist" => cut'
    BY <1>6
  <2>4. Names(url') /\ w \in seen'
    BY <1>2, <1>3, <1>5
  <2> QED BY <1>4, <2>1, <2>2, <2>3, <2>4 DEF AnswerWasTrue
<1> QED BY <1>7, <1>8, <1>9 DEF IInv

\* fileSystemFreeSpace() has its reply, and what is over the quota is no space.
LEMMA SpaceStep == ASSUME IInv, Space PROVE IInv'
<1> DEFINE Total(w, whole) == IF ~whole THEN 0
                              ELSE IF w.quota.individual # 0 THEN w.quota.individual
                              ELSE w.quota.team
<1>1. PICK w \in seen, whole \in BOOLEAN :
        /\ cut' = ~whole
        /\ IF Total(w, whole) = 0
           THEN code' = "UnsupportedAction" /\ UNCHANGED told
           ELSE /\ code' = "ok"
                /\ told' = <<<<"total", Total(w, whole)>>,
                             <<"available", Available(Total(w, whole), w.quota.used)>>>>
  BY DEF Space
<1>2. /\ op = "freeSpace" /\ phase = "running" /\ phase' = "idle" /\ ok' = TRUE
      /\ announced' = IF streaming THEN 1 ELSE announced
      /\ UNCHANGED <<streaming, delivered, error>>
      /\ UNCHANGED <<world, op, url, body, changes, seen>>
  BY DEF Space, Call!Succeed
<1>3. w.quota.used \in Nat /\ w.quota.individual \in Nat /\ w.quota.team \in Nat
  <2>1. w.quota \in Quotas
    BY DEF IInv, TypeOK, Worlds
  <2> QED BY <2>1, ReadingAssumption
<1> DEFINE total == Total(w, whole)
           available == Available(total, w.quota.used)
<1>4. total \in Nat /\ (total # 0 => total \in {w.quota.individual, w.quota.team})
  BY <1>3
<1>5. /\ available \in 0..total
      /\ available + w.quota.used = total \/ (available = 0 /\ w.quota.used > total)
  <2> HIDE DEF total
  <2>1. CASE w.quota.used > total
    <3>1. Max({0, total - w.quota.used}) = 0
      BY <1>3, <1>4, <2>1 DEF Max
    <3> QED BY <1>3, <1>4, <2>1, <3>1 DEF Available
  <2>2. CASE w.quota.used <= total
    <3>1. Max({0, total - w.quota.used}) = total - w.quota.used
      BY <1>3, <1>4, <2>2 DEF Max
    <3> QED BY <1>3, <1>4, <2>2, <3>1 DEF Available
  <2> QED BY <1>3, <1>4, <2>1, <2>2
<1>6. \/ code' = "UnsupportedAction"
      \/ code' = "ok" /\ total # 0 /\ told' = <<<<"total", total>>, <<"available", available>>>>
  BY <1>1
<1> HIDE DEF total, available
<1>7. TypeOK'
  <2>1. announced' \in {0, 1} /\ cut' \in BOOLEAN
    BY <1>1, <1>2 DEF IInv, TypeOK
  <2>2. code' \in Codes \ {"NoError"} /\ code' # "none"
    BY <1>6 DEF Codes
  <2> QED BY <1>2, <2>1, <2>2 DEF IInv, TypeOK
<1>8. Streaming' /\ OneVersion' /\ WholeVersion' /\ AnswerWasTrue'
  BY <1>2 DEF Streaming, OneVersion, WholeVersion, AnswerWasTrue
<1>9. SpaceWasTrue'
  <2> SUFFICES ASSUME code' = "ok"
               PROVE  /\ told'[2][2] \in 0..told'[1][2] /\ told'[1][2] > 0
                      /\ \E v \in seen' :
                            /\ told'[1][2] \in {v.quota.individual, v.quota.team}
                            /\ \/ told'[2][2] + v.quota.used = told'[1][2]
                               \/ told'[2][2] = 0 /\ v.quota.used > told'[1][2]
    BY DEF SpaceWasTrue
  <2>1. told'[1][2] = total /\ told'[2][2] = available /\ total # 0
    BY <1>6
  <2> QED BY <1>2, <1>4, <1>5, <2>1
<1> QED BY <1>7, <1>8, <1>9 DEF IInv

\* A chunk or the end of the stream reaches the job: after its size if it is the
\* first, and of the version that was announced.
LEMMA ReceiveFacts ==
    ASSUME IInv, phase = "running", op = "get", NEW m \in Nat, Receive(<<<<"data", m>>>>),
           UNCHANGED <<op, url, seen>>
    PROVE  /\ Ordered' /\ Sized' /\ Len(told') > 2 /\ told'[Len(told')] = <<"data", m>>
           /\ \A i \in DOMAIN told' : told'[i] = <<"data", 0>> => i = Len(told') /\ m = 0
           /\ ServedAs(body)' /\ body' \in Things /\ body'.kind = "file"
           /\ body'.size \in 0..MaxBody /\ delivered <= body'.size
<1>1. told # <<>> /\ Ordered /\ Sized /\ Ended /\ (announced = 0 <=> Len(told) = 1)
  BY DEF IInv, OneVersion, Streaming, Announced, Over
<1>2. /\ told \in Seq(Messages) /\ Len(told) \in Nat \ {0, 2} /\ DOMAIN told = 1..Len(told)
      /\ told[1] = <<"mime", "guess">>
      /\ \A i \in DOMAIN told : i > 1 => told[i][1] = IF i = 2 THEN "total" ELSE "data"
      /\ \A i \in DOMAIN told : told[i] # <<"data", 0>>
  BY <1>1, LenProperties DEF Ordered, Ended, Over
<1>3. <<"data", m>> \in Messages
  BY DEF Messages
<1>4. ServedAs(body)' /\ body' \in Things /\ delivered <= body'.size
  <2>1. \A w : Refused(w)' = Refused(w)
    BY SameQuestion
  <2>2. CASE announced > 0
    <3>1. announced = 1 /\ ServedAs(body) /\ delivered <= body.size
      BY <2>2 DEF IInv, TypeOK, OneVersion
    <3>2. body' = body
      BY <2>2 DEF Receive
    <3> QED BY <2>1, <3>1, <3>2 DEF ServedAs, IInv, TypeOK
  <2>3. CASE announced = 0
    <3>1. PICK w \in Served : body' = w.entry
      BY <2>3 DEF Receive
    <3>2. w \in seen /\ Refused(w) = {} /\ w.entry \in Things
      BY <3>1 DEF Served, IInv, TypeOK, Worlds
    <3>3. delivered = 0 /\ w.entry.size >= 0
      BY <2>3, <3>2 DEF IInv, OneVersion, Things, Absent, Folder
    <3> QED BY <2>1, <3>1, <3>2, <3>3 DEF ServedAs
  <2>4. announced \in {0, 1}
    BY DEF IInv, TypeOK
  <2> QED BY <2>2, <2>3, <2>4
<1>5. body'.kind = "file" /\ body'.size \in 0..MaxBody
  <2>1. PICK w \in seen' : Refused(w)' = {} /\ w.entry = body'
    BY <1>4 DEF ServedAs
  <2>2. Refused(w) = {} /\ w \in Worlds
    BY <2>1, SameQuestion DEF IInv, TypeOK
  <2>3. body'.kind = "file"
    BY <2>1, <2>2, RefusedFacts
  <2> QED BY <1>4, <2>3, ReadingAssumption DEF Things, Absent, Folder
<1>6. /\ told' \in Seq(Messages) /\ Len(told') \in Nat /\ Len(told') > 2
      /\ told'[Len(told')] = <<"data", m>> /\ told'[1] = <<"mime", "guess">>
      /\ \A i \in 2..Len(told') : told'[i][1] = IF i = 2 THEN "total" ELSE "data"
      /\ \A i \in 1..Len(told') - 1 : told'[i] # <<"data", 0>>
      /\ told'[2][2] \in {0, body'.size}
  <2>1. CASE announced > 0
    <3>1. told' = told \o <<<<"data", m>>>>
      BY <2>1 DEF Receive
    <3>2. /\ told' \in Seq(Messages) /\ Len(told') = Len(told) + 1
          /\ told'[Len(told) + 1] = <<"data", m>>
          /\ \A i \in 1..Len(told) : told'[i] = told[i]
      BY <1>2, <1>3, <3>1, ToldFacts
    <3>3. Len(told) > 2
      BY <1>1, <1>2, <2>1
    <3>4. told'[1] = <<"mime", "guess">>
      BY <1>2, <3>2, <3>3
    <3>5. ASSUME NEW i \in 2..Len(told')
          PROVE  told'[i][1] = IF i = 2 THEN "total" ELSE "data"
      <4>1. CASE i \in 1..Len(told)
        BY <1>2, <3>2, <4>1
      <4>2. CASE i = Len(told) + 1
        BY <3>2, <3>3, <4>2
      <4> QED BY <1>2, <3>2, <4>1, <4>2
    <3>6. ASSUME NEW i \in 1..Len(told') - 1 PROVE told'[i] # <<"data", 0>>
      <4>1. i \in 1..Len(told)
        BY <1>2, <3>2
      <4> QED BY <1>2, <3>2, <4>1
    <3>7. told'[2][2] \in {0, body'.size}
      <4>1. told[2][2] \in {0, body.size} /\ body' = body
        BY <1>1, <2>1, <3>3 DEF Sized, Receive
      <4>2. told'[2] = told[2]
        BY <1>2, <3>2, <3>3
      <4> QED BY <4>1, <4>2
    <3>8. Len(told') \in Nat /\ Len(told') > 2 /\ told'[Len(told')] = <<"data", m>>
      BY <1>2, <3>2, <3>3
    <3> QED BY <3>2, <3>4, <3>5, <3>6, <3>7, <3>8
  <2>2. CASE announced = 0
    <3>1. PICK size \in {body'.size, 0} : told' = (told \o <<<<"total", size>>>>) \o <<<<"data", m>>>>
      <4>1. ~(announced > 0)
        BY <2>2
      <4>2. \E size \in {body'.size, 0} :
                told' = told \o <<<<"total", size>>>> \o <<<<"data", m>>>>
        BY <4>1 DEF Receive
      <4> QED BY <4>2
    <3> DEFINE s == told \o <<<<"total", size>>>>
    <3>2. <<"total", size>> \in Messages
      BY <1>5, ReadingAssumption DEF Messages
    <3>3. Len(told) = 1
      BY <1>1, <2>2
    <3>4. s \in Seq(Messages) /\ Len(s) = 2 /\ s[2] = <<"total", size>> /\ s[1] = told[1]
      <4>1. /\ s \in Seq(Messages) /\ Len(s) = Len(told) + 1
            /\ s[Len(told) + 1] = <<"total", size>>
            /\ \A i \in 1..Len(told) : s[i] = told[i]
        BY <1>2, <3>2, ToldFacts
      <4>2. 1 + 1 = 2 /\ 1 \in 1..1
        OBVIOUS
      <4> HIDE DEF s
      <4> QED BY <3>3, <4>1, <4>2
    <3>5. told' = s \o <<<<"data", m>>>>
      BY <3>1
    <3> HIDE DEF s
    <3>6. /\ told' \in Seq(Messages) /\ Len(told') = Len(s) + 1
          /\ told'[Len(s) + 1] = <<"data", m>>
          /\ \A i \in 1..Len(s) : told'[i] = s[i]
      BY <1>3, <3>4, <3>5, ToldFacts
    <3>7. /\ Len(told') = 3 /\ told'[3] = <<"data", m>>
          /\ told'[1] = <<"mime", "guess">> /\ told'[2] = <<"total", size>>
      <4>1. 2 + 1 = 3 /\ 1 \in 1..2 /\ 2 \in 1..2
        OBVIOUS
      <4> QED BY <1>2, <3>4, <3>6, <4>1
    <3>8. ASSUME NEW i \in 2..3 PROVE told'[i][1] = IF i = 2 THEN "total" ELSE "data"
      <4>1. i = 2 \/ i = 3
        OBVIOUS
      <4> QED BY <3>7, <4>1
    <3>9. ASSUME NEW i \in 1..2 PROVE told'[i] # <<"data", 0>>
      <4>1. i = 1 \/ i = 2
        OBVIOUS
      <4>2. <<"mime", "guess">> # <<"data", 0>> /\ <<"total", size>> # <<"data", 0>>
        OBVIOUS
      <4> QED BY <3>7, <4>1, <4>2
    <3>10. 3 \in Nat /\ 3 > 2 /\ 3 - 1 = 2
      OBVIOUS
    <3>11. told'[2][2] \in {0, body'.size}
      <4>1. told'[2][2] = size
        BY <3>7
      <4> QED BY <3>1, <4>1
    <3> QED BY <3>6, <3>7, <3>8, <3>9, <3>10, <3>11
  <2>3. announced \in {0, 1}
    BY DEF IInv, TypeOK
  <2> QED BY <2>1, <2>2, <2>3
<1>7. DOMAIN told' = 1..Len(told')
  BY <1>6, LenProperties
<1>8. Ordered' /\ Sized'
  BY <1>6, <1>7 DEF Ordered, Sized
<1>9. ASSUME NEW i \in DOMAIN told', told'[i] = <<"data", 0>> PROVE i = Len(told') /\ m = 0
  <2>1. i = Len(told')
    BY <1>6, <1>7, <1>9
  <2>2. <<"data", m>> = <<"data", 0>>
    BY <1>6, <1>9, <2>1
  <2> QED BY <2>1, <2>2
<1> QED BY <1>4, <1>5, <1>6, <1>8, <1>9

\* A chunk of the file, of the version that was announced.
LEMMA DataStep == ASSUME IInv, Data PROVE IInv'
<1>1. PICK n \in 1..MaxBody, more \in Answers :
        /\ Call!Deliver(n, more)
        /\ Receive(<<<<"data", n>>>>)
        /\ delivered' <= body'.size
        /\ code' = IF more THEN "none" ELSE ToKioError(error)
  BY DEF Data
<1>2. /\ more = TRUE /\ code' = "none" /\ n \in Nat /\ n # 0
      /\ phase = "running" /\ phase' = "running" /\ streaming
      /\ delivered' = delivered + n /\ delivered' <= MaxBody /\ announced' = 1
      /\ UNCHANGED <<streaming, ok, error>>
      /\ UNCHANGED <<world, op, url, changes, seen, cut>>
  BY <1>1, ReadingAssumption DEF Data, Answers, Call!Deliver
<1>3. op = "get"
  BY <1>2 DEF IInv, OneVersion
<1>4. /\ Ordered' /\ Sized' /\ Len(told') > 2 /\ told'[Len(told')] = <<"data", n>>
      /\ \A i \in DOMAIN told' : told'[i] = <<"data", 0>> => i = Len(told') /\ n = 0
      /\ ServedAs(body)' /\ body' \in Things
  BY <1>1, <1>2, <1>3, ReceiveFacts
<1>5. TypeOK'
  <2>1. delivered' \in 0..MaxBody
    BY <1>2, ReadingAssumption DEF IInv, TypeOK
  <2>2. "none" \in Codes \ {"NoError"}
    BY DEF Codes
  <2> QED BY <1>2, <1>4, <2>1, <2>2 DEF IInv, TypeOK
<1>6. Streaming'
  <2>1. Ended'
    BY <1>2, <1>4 DEF Ended, Over
  <2>2. Announced'
    BY <1>2, <1>4 DEF Announced, Over
  <2> QED BY <1>4, <2>1, <2>2 DEF Streaming
<1>7. OneVersion'
  <2>1. told' # <<>>
    BY <1>4 DEF Ordered
  <2>2. streaming' /\ op' = "get" /\ announced' # 0
    BY <1>2, <1>3
  <2> QED BY <1>1, <1>4, <2>1, <2>2 DEF OneVersion
<1>8. WholeVersion' /\ AnswerWasTrue' /\ SpaceWasTrue'
  BY <1>2 DEF WholeVersion, AnswerWasTrue, SpaceWasTrue, Over
<1> QED BY <1>5, <1>6, <1>7, <1>8 DEF IInv

\* The download is over; it was whole if as much came as the file has.
LEMMA EndStep == ASSUME IInv, EndOfData PROVE IInv'
<1>1. /\ op = "get" /\ phase = "running" /\ phase' = "idle" /\ ok' = TRUE
      /\ announced' = IF streaming THEN 1 ELSE announced
      /\ Receive(<<<<"data", 0>>>>) /\ code' = "ok" /\ cut' = (delivered < body'.size)
      /\ UNCHANGED <<streaming, delivered, error>>
      /\ UNCHANGED <<world, op, url, changes, seen>>
  BY DEF EndOfData, Call!Succeed
<1>2. /\ Ordered' /\ Sized' /\ Len(told') > 2 /\ told'[Len(told')] = <<"data", 0>>
      /\ \A i \in DOMAIN told' : told'[i] = <<"data", 0>> => i = Len(told')
      /\ ServedAs(body)' /\ body' \in Things /\ body'.kind = "file"
      /\ body'.size \in 0..MaxBody /\ delivered <= body'.size
  BY <1>1, ReceiveFacts
<1>3. TypeOK'
  <2>1. announced' \in {0, 1} /\ cut' \in BOOLEAN
    BY <1>1 DEF IInv, TypeOK
  <2>2. "ok" \in Codes \ {"NoError"}
    BY DEF Codes
  <2> QED BY <1>1, <1>2, <2>1, <2>2 DEF IInv, TypeOK
<1>4. Streaming'
  <2>1. Ended'
    BY <1>1, <1>2 DEF Ended, Over
  <2>2. Announced'
    BY <1>1 DEF Announced, Over
  <2> QED BY <1>2, <2>1, <2>2 DEF Streaming
<1>5. OneVersion' /\ SpaceWasTrue'
  BY <1>1 DEF OneVersion, SpaceWasTrue
<1>6. WholeVersion'
  <2>1. delivered \in Nat
    BY ReadingAssumption DEF IInv, TypeOK
  <2>2. ~cut' => delivered' = body'.size
    <3> SUFFICES ASSUME ~cut' PROVE delivered = body'.size
      BY <1>1
    <3>1. ~(delivered < body'.size)
      BY <1>1
    <3>2. body'.size \in Nat
      BY <1>2, ReadingAssumption
    <3> QED BY <1>2, <2>1, <3>1, <3>2
  <2> QED BY <1>2, <2>2 DEF WholeVersion
<1>7. AnswerWasTrue'
  <2>1. PICK w \in seen' : Refused(w)' = {}
    BY <1>2 DEF ServedAs
  <2>2. w \in Worlds /\ Refused(w) = {}
    BY <1>1, <2>1, SameQuestion DEF IInv, TypeOK
  <2>3. Names(url')
    BY <1>1, <2>2, RefusedFacts, UrlType, PathFacts DEF IInv
  <2> QED BY <1>1, <2>3 DEF AnswerWasTrue
<1> QED BY <1>3, <1>4, <1>5, <1>6, <1>7 DEF IInv

\* Other clients only add to what was seen.
LEMMA ChangeStep == ASSUME IInv, Change PROVE IInv'
<1>1. /\ changes < MaxChanges /\ changes' = changes + 1
      /\ seen' = IF phase = "running" THEN seen \cup {world'} ELSE seen
      /\ UNCHANGED <<phase, streaming, announced, delivered, ok, error>>
      /\ UNCHANGED <<op, url, told, code, body, cut>>
  BY DEF Change, callVars
<1>2. world' \in Worlds
  <2>1. world \in [entry: Things, quota: Quotas]
    BY DEF IInv, TypeOK, Worlds
  <2>2. CASE \E e \in Things : world' = [world EXCEPT !.entry = e]
    BY <2>1, <2>2 DEF Worlds
  <2>3. CASE \E q \in Quotas : world' = [world EXCEPT !.quota = q]
    BY <2>1, <2>3 DEF Worlds
  <2> QED BY <2>2, <2>3 DEF Change
<1>3. seen \subseteq seen' /\ seen' \subseteq Worlds
  BY <1>1, <1>2 DEF IInv, TypeOK
<1>4. TypeOK'
  <2>1. changes' \in 0..MaxChanges
    BY <1>1, ReadingAssumption DEF IInv, TypeOK
  <2> QED BY <1>1, <1>2, <1>3, <2>1 DEF IInv, TypeOK
<1>5. Streaming'
  BY <1>1 DEF IInv, Streaming, Ordered, Sized, Ended, Announced, Over
<1>6. ServedAs(body) => ServedAs(body)'
  <2>1. \A w : Refused(w)' = Refused(w)
    BY <1>1, SameQuestion
  <2> QED BY <1>1, <1>3, <2>1 DEF ServedAs
<1>7. OneVersion' /\ WholeVersion'
  <2>1. OneVersion'
    BY <1>1, <1>6 DEF IInv, OneVersion
  <2>2. WholeVersion'
    BY <1>1, <1>6 DEF IInv, WholeVersion, Over
  <2> QED BY <2>1, <2>2
<1>8. AnswerWasTrue'
  <2>1. \A item : Described(item)' = Described(item)
    BY <1>1 DEF Described
  <2> QED BY <1>1, <1>3, <2>1 DEF IInv, AnswerWasTrue, Over, HasName
<1>9. SpaceWasTrue'
  BY <1>1, <1>3 DEF IInv, SpaceWasTrue, Over
<1> QED BY <1>4, <1>5, <1>7, <1>8, <1>9 DEF IInv

-----------------------------------------------------------------------------
\* Whatever is retried and whatever others do, the invariant stays.
THEOREM Invariance == Spec => []IInv
<1>1. IInv /\ [Next]_vars => IInv'
  <2> SUFFICES ASSUME IInv, [Next]_vars PROVE IInv'
    OBVIOUS
  <2>1. CASE UNCHANGED vars
    <3>1. /\ UNCHANGED <<phase, streaming, announced, delivered, ok, error>>
          /\ UNCHANGED <<world, op, url, told, code, body, changes, seen, cut>>
      BY <2>1 DEF vars, callVars
    <3>2. (\A w : Refused(w)' = Refused(w)) /\ (\A item : Described(item)' = Described(item))
      BY <3>1, SameQuestion DEF Described
    <3>3. TypeOK' /\ Streaming'
      BY <3>1 DEF IInv, TypeOK, Streaming, Ordered, Sized, Ended, Announced, Over
    <3>4. OneVersion' /\ WholeVersion'
      BY <3>1, <3>2 DEF IInv, OneVersion, WholeVersion, ServedAs, Over
    <3>5. AnswerWasTrue' /\ SpaceWasTrue'
      BY <3>1, <3>2 DEF IInv, AnswerWasTrue, SpaceWasTrue, Over, HasName
    <3> QED BY <3>3, <3>4, <3>5 DEF IInv
  <2>2. CASE BeginLocal
    BY <2>2, LocalStep
  <2>3. CASE BeginCall
    BY <2>3, CallStep
  <2>4. CASE Data
    BY <2>4, DataStep
  <2>5. CASE EndOfData
    BY <2>5, EndStep
  <2>6. CASE Metadata
    BY <2>6, MetadataStep
  <2>7. CASE Space
    BY <2>7, SpaceStep
  <2>8. CASE CallFailed
    BY <2>8, FailedStep
  <2>9. CASE Change
    BY <2>9, ChangeStep
  <2> QED BY <2>1, <2>2, <2>3, <2>4, <2>5, <2>6, <2>7, <2>8, <2>9 DEF Next
<1> QED BY <1>1, Initially, PTL DEF Spec

\* Every variable has its type, no call outlives its operation, and no operation
\* fails with KIO error 0, which would be taken for a success.
THEOREM TypeCorrect == Spec => []TypeOK
<1>1. IInv => TypeOK
  BY DEF IInv
<1> QED BY <1>1, Invariance, PTL

\* stat(), mimetype() and get() answer with the entry the URL names, as it was, and
\* only say that it does not exist if it did not, or the reply broke off.
THEOREM AnswersAreTrue == Spec => []AnswerWasTrue
<1>1. IInv => AnswerWasTrue
  BY DEF IInv
<1> QED BY <1>1, Invariance, PTL

\* get() tells the type, one size, the data and then the end, which only comes if
\* it succeeds; what it read is one whole version of the file unless the reply
\* broke off.
THEOREM StreamInOrder == Spec => []Stream
<1>1. ASSUME IInv PROVE Stream
  <2> DEFINE At(message) == {i \in DOMAIN told : Head(told[i]) = message}
             ends == {i \in At("data") : told[i] = <<"data", 0>>}
  <2> SUFFICES ASSUME op = "get", told # <<>>
               PROVE  /\ At("mime") = {1}
                      /\ At("total") = IF At("data") = {} THEN {} ELSE {2}
                      /\ ends = IF Over /\ code = "ok" THEN {Len(told)} ELSE {}
                      /\ Over /\ code # "ok" => At("data") = {}
                      /\ Over /\ code = "ok" /\ ~cut =>
                            /\ told[2][2] \in {0, delivered}
                            /\ \E w \in seen :
                                  w.entry.kind = "file" /\ w.entry.size = delivered
    BY DEF Stream
  <2>1. Ordered /\ Sized /\ Ended /\ Announced
    BY <1>1 DEF IInv, Streaming
  <2>2. /\ DOMAIN told = 1..Len(told) /\ Len(told) \in Nat \ {0, 2}
        /\ told[1] = <<"mime", "guess">> /\ \A i \in DOMAIN told : told[i] \in Messages
    BY <2>1, LenProperties, ElementOfSeq DEF Ordered
  <2>3. \A i \in DOMAIN told : Head(told[i]) = told[i][1]
    BY <2>2 DEF Messages
  <2>4. \A i \in DOMAIN told : Head(told[i]) = IF i = 1 THEN "mime"
                                               ELSE IF i = 2 THEN "total" ELSE "data"
    BY <2>1, <2>2, <2>3 DEF Ordered
  <2>5. At("mime") = {1}
    BY <2>2, <2>4
  <2>6. At("total") = (IF Len(told) = 1 THEN {} ELSE {2})
        /\ At("data") = 3..Len(told) /\ (At("data") = {} <=> Len(told) = 1)
    BY <2>2, <2>4
  <2>7. ends = IF Over /\ code = "ok" THEN {Len(told)} ELSE {}
    <3>1. \A i \in DOMAIN told : told[i] = <<"data", 0>> <=> Over /\ code = "ok" /\ i = Len(told)
      BY <2>1 DEF Ended
    <3>2. ends = {i \in DOMAIN told : told[i] = <<"data", 0>>}
      BY <2>3
    <3> QED BY <2>2, <3>1, <3>2
  <2>8. Over /\ code # "ok" => At("data") = {}
    BY <2>1, <2>6 DEF Announced
  <2>9. Over /\ code = "ok" /\ ~cut =>
            /\ told[2][2] \in {0, delivered}
            /\ \E w \in seen : w.entry.kind = "file" /\ w.entry.size = delivered
    <3> SUFFICES ASSUME Over, code = "ok", ~cut
                 PROVE  /\ told[2][2] \in {0, delivered}
                        /\ \E w \in seen : w.entry.kind = "file" /\ w.entry.size = delivered
      OBVIOUS
    <3>1. PICK w \in seen : Refused(w) = {} /\ w.entry = body /\ delivered = body.size
      BY <1>1 DEF IInv, WholeVersion, ServedAs
    <3>2. w.entry.kind = "file"
      BY <1>1, <3>1, RefusedFacts DEF IInv, TypeOK
    <3>3. Len(told) > 2
      <4>1. told[Len(told)] = <<"data", 0>>
        BY <2>1, <2>2 DEF Ended
      <4> QED BY <2>2, <4>1
    <3>4. told[2][2] \in {0, delivered}
      BY <2>1, <3>1, <3>3 DEF Sized
    <3> QED BY <3>1, <3>2, <3>4
  <2> QED BY <2>5, <2>6, <2>7, <2>8, <2>9
<1> QED BY <1>1, Invariance, PTL

\* fileSystemFreeSpace() reports space that an account had, and never more than its
\* size or less than nothing.
THEOREM SpaceIsTrue == Spec => []SpaceWasTrue
<1>1. IInv => SpaceWasTrue
  BY DEF IInv
<1> QED BY <1>1, Invariance, PTL

\* Reading.tla rests on what ApiCall promises and on no more: each operation is local, or
\* one call that begins, delivers, succeeds or fails as those of DropboxRequest do, which
\* implements ApiCall.
THEOREM CallsOnly == Spec => Call!Spec
<1>1. Init => Call!Init
  BY DEF Init
<1>2. ASSUME IInv, [Next]_vars PROVE [Call!Next]_(Call!vars)
  <2>1. CASE UNCHANGED callVars
    BY <2>1 DEF callVars, Call!vars
  <2>2. CASE BeginCall
    BY <2>2 DEF BeginCall, Call!Next, Call!Begin
  <2>3. CASE Data
    BY <2>3 DEF Data, Answers, Call!Next
  <2>4. CASE EndOfData \/ Metadata \/ Space
    BY <2>4 DEF EndOfData, Metadata, Space, Call!Next
  <2>5. CASE CallFailed
    <3>1. PICK kind \in Refusals : Call!Fail(kind)
      BY <2>5 DEF CallFailed
    <3>2. kind \in Kinds \ {"None"}
      BY <1>2, <3>1, RefusalsFacts DEF IInv, TypeOK
    <3> QED BY <3>1, <3>2 DEF Call!Next
  <2> QED BY <1>2, <2>1, <2>2, <2>3, <2>4, <2>5 DEF Next, BeginLocal, Change, vars
<1>3. IInv /\ [Next]_vars => [Call!Next]_(Call!vars)
  BY <1>2
<1> QED BY <1>1, <1>3, Invariance, PTL DEF Spec, Call!Spec
==============================================================================
