---------------------------- MODULE FileOpsProofs ----------------------------
(***************************************************************************)
(* mkdir(), del(), rename() and copy() only ever erase what they were told   *)
(* to, and report success of nothing but what was done, for any account,     *)
(* any operation and any number of attempts and of changes by others.        *)
(*                                                                         *)
(* The first part is about the tree: what the endpoints of the server keep.  *)
(* The second is the inductive invariant. A delete erases at the target, and *)
(* nothing else erases anything, because there is nothing below a target     *)
(* that is not there (NoOrphans). Who sent the delete is known because no    *)
(* request is on its way that the operation did not ask for (Asked); and     *)
(* while the way is being cleared the source is where it was (InPlace),      *)
(* unless that delete was given up on before (GivenUp). The third says how   *)
(* many steps an operation may take.                                       *)
(***************************************************************************)
EXTENDS FileOps, RequestPolicyProofs, SequenceTheorems

-----------------------------------------------------------------------------
(* The tree. *)

\* A prefix, name by name.
LEMMA PrefixNames ==
    ASSUME NEW S, NEW s \in Seq(S), NEW t \in Seq(S)
    PROVE  IsPrefix(s, t) <=> Len(s) <= Len(t) /\ \A i \in 1..Len(s) : s[i] = t[i]
<1>1. Len(s) \in Nat /\ Len(t) \in Nat
  BY LenProperties
<1>2. SubSeq(s, 1, Len(s)) = s
  BY SubSeqFull
<1>3. ASSUME Len(s) <= Len(t)
      PROVE  /\ SubSeq(t, 1, Len(s)) \in Seq(S) /\ Len(SubSeq(t, 1, Len(s))) = Len(s)
             /\ \A i \in 1..Len(s) : SubSeq(t, 1, Len(s))[i] = t[i]
  <2> DEFINE n == Len(s)
  <2>1. n \in Nat /\ \A i \in 1..n : t[i] \in S
    BY <1>1, <1>3, ElementOfSeq
  <2> HIDE DEF n
  <2>2. /\ SubSeq(t, 1, n) \in Seq(S) /\ Len(SubSeq(t, 1, n)) = IF 1 <= n THEN n - 1 + 1 ELSE 0
        /\ \A i \in 1 .. n - 1 + 1 : SubSeq(t, 1, n)[i] = t[1 + i - 1]
    BY <2>1, SubSeqProperties
  <2>3. Len(SubSeq(t, 1, n)) = n /\ \A i \in 1..n : SubSeq(t, 1, n)[i] = t[i]
    BY <2>1, <2>2
  <2> QED BY <2>2, <2>3 DEF n
<1>4. ASSUME Len(s) <= Len(t), \A i \in 1..Len(s) : s[i] = t[i]
      PROVE  s = SubSeq(t, 1, Len(s))
  BY <1>3, <1>4, SeqEqual
<1> QED BY <1>1, <1>2, <1>3, <1>4 DEF IsPrefix

\* Of two folders that hold the same, one holds the other.
LEMMA PrefixOrder ==
    ASSUME NEW S, NEW s \in Seq(S), NEW t \in Seq(S), NEW u \in Seq(S)
    PROVE  /\ IsPrefix(s, t) /\ IsPrefix(t, u) => IsPrefix(s, u)
           /\ IsPrefix(s, u) /\ IsPrefix(t, u) => IsPrefix(s, t) \/ IsPrefix(t, s)
           /\ IsPrefix(s, s)
<1>1. Len(s) \in Nat /\ Len(t) \in Nat /\ Len(u) \in Nat
  BY LenProperties
<1> QED BY <1>1, PrefixNames

\* What is below one path, put below another and taken back.
LEMMA Replanted ==
    ASSUME NEW S, NEW from \in Seq(S), NEW to \in Seq(S), NEW p \in Seq(S), IsPrefix(from, p)
    PROVE  LET there == to \o SubSeq(p, Len(from) + 1, Len(p))
           IN  /\ there \in Seq(S) /\ IsPrefix(to, there)
               /\ from \o SubSeq(there, Len(to) + 1, Len(there)) = p
               /\ p = from => there = to
<1>1. /\ Len(from) \in Nat /\ Len(to) \in Nat /\ Len(p) \in Nat
      /\ Len(from) <= Len(p) /\ \A i \in 1..Len(from) : from[i] = p[i]
  BY LenProperties, PrefixNames
<1> DEFINE f == Len(from)
           n == Len(p)
           rest == SubSeq(p, f + 1, n)
<1>2. rest \in Seq(S) /\ Len(rest) = n - f /\ \A i \in 1 .. n - f : rest[i] = p[f + i]
  <2>1. \A i \in 1..n : p[i] \in S
    BY ElementOfSeq
  <2>2. f \in Nat /\ n \in Nat /\ f <= n
    BY <1>1
  <2> HIDE DEF f, n
  <2>3. \A i \in f + 1 .. n : p[i] \in S
    BY <2>1, <2>2
  <2>4. f + 1 \in Int /\ n \in Int
    BY <2>2
  <2>5. /\ SubSeq(p, f + 1, n) \in Seq(S)
        /\ Len(SubSeq(p, f + 1, n)) = IF f + 1 <= n THEN n - (f + 1) + 1 ELSE 0
        /\ \A i \in 1 .. n - (f + 1) + 1 : SubSeq(p, f + 1, n)[i] = p[(f + 1) + i - 1]
    BY <2>3, <2>4, SubSeqProperties
  <2>6. /\ (IF f + 1 <= n THEN n - (f + 1) + 1 ELSE 0) = n - f
        /\ \A i \in 1 .. n - f : i \in 1 .. n - (f + 1) + 1 /\ (f + 1) + i - 1 = f + i
    BY <2>2
  <2> QED BY <2>5, <2>6
<1> DEFINE there == to \o rest
           k == Len(to)
<1> HIDE DEF rest
<1>3. /\ there \in Seq(S) /\ Len(there) = k + (n - f)
      /\ \A i \in 1 .. k + (n - f) : there[i] = IF i <= k THEN to[i] ELSE rest[i - k]
  <2>1. /\ to \o rest \in Seq(S) /\ Len(to \o rest) = Len(to) + Len(rest)
        /\ \A i \in 1 .. Len(to) + Len(rest) :
              (to \o rest)[i] = IF i <= Len(to) THEN to[i] ELSE rest[i - Len(to)]
    BY <1>2, ConcatProperties
  <2> QED BY <1>2, <2>1
<1>4. IsPrefix(to, there)
  <2>1. k <= Len(there) /\ \A i \in 1..k : to[i] = there[i]
    BY <1>1, <1>3
  <2> QED BY <2>1, <1>3, PrefixNames
<1> DEFINE back == SubSeq(there, k + 1, Len(there))
<1>5. back = rest
  <2>1. k \in Nat /\ n \in Nat /\ f \in Nat /\ Len(there) \in Nat /\ n - f \in Nat
    BY <1>1, <1>3
  <2> HIDE DEF there, k, f, n
  <2>2. \A i \in k + 1 .. Len(there) : there[i] \in S
    BY <1>3, <2>1, ElementOfSeq
  <2>3. k + 1 \in Int /\ Len(there) \in Int
    BY <2>1
  <2>4. /\ back \in Seq(S)
        /\ Len(back) = IF k + 1 <= Len(there) THEN Len(there) - (k + 1) + 1 ELSE 0
        /\ \A i \in 1 .. Len(there) - (k + 1) + 1 : back[i] = there[(k + 1) + i - 1]
    BY <2>2, <2>3, SubSeqProperties
  <2>5. Len(back) = n - f /\ \A i \in 1 .. n - f : back[i] = there[k + i]
    BY <1>3, <2>1, <2>4
  <2>6. \A i \in 1 .. n - f : back[i] = rest[i]
    <3>1. \A i \in 1 .. n - f : k + i \in 1 .. k + (n - f) /\ ~(k + i <= k) /\ (k + i) - k = i
      BY <2>1
    <3> HIDE DEF back
    <3> QED BY <1>3, <2>5, <3>1
  <2> HIDE DEF back
  <2> QED BY <1>2, <2>4, <2>5, <2>6, SeqEqual
<1>6. from \o rest = p
  <2>1. /\ from \o rest \in Seq(S) /\ Len(from \o rest) = n
        /\ \A i \in 1..n : (from \o rest)[i] = IF i <= f THEN from[i] ELSE rest[i - f]
    BY <1>1, <1>2, ConcatProperties
  <2>2. \A i \in 1..n : (from \o rest)[i] = p[i]
    BY <1>1, <1>2, <2>1
  <2> QED BY <2>1, <2>2, SeqEqual
<1>7. p = from => there = to
  <2> SUFFICES ASSUME p = from PROVE there = to
    OBVIOUS
  <2>1. Len(there) = Len(to) /\ \A i \in 1..Len(to) : there[i] = to[i]
    BY <1>1, <1>3
  <2> QED BY <1>3, <2>1, SeqEqual
<1> QED BY <1>3, <1>4, <1>5, <1>6, <1>7 DEF rest

\* create_folder_v2 adds one folder.
LEMMA CreatedKeeps ==
    ASSUME NEW t, NEW path, path \notin DOMAIN t
    PROVE  /\ DOMAIN Created(t, path) = DOMAIN t \cup {path}
           /\ \A p \in DOMAIN t : Created(t, path)[p] = t[p]
           /\ Created(t, path)[path] = Folder
           /\ Contents(t) \ Contents(Created(t, path)) = {}
<1>1. /\ DOMAIN Created(t, path) = DOMAIN t \cup {path}
      /\ \A p \in DOMAIN t : Created(t, path)[p] = t[p]
      /\ Created(t, path)[path] = Folder
  BY DEF Created
<1> QED BY <1>1 DEF Contents

\* delete_v2 erases what is at or below the path.
LEMMA DeletedErases ==
    ASSUME NEW t, NEW path
    PROVE  /\ DOMAIN Deleted(t, path) = {p \in DOMAIN t : ~IsPrefix(path, p)}
           /\ \A p \in DOMAIN Deleted(t, path) : Deleted(t, path)[p] = t[p]
           /\ Contents(t) \ Contents(Deleted(t, path)) \subseteq ContentsBelow(t, path)
<1>1. /\ DOMAIN Deleted(t, path) = {p \in DOMAIN t : ~IsPrefix(path, p)}
      /\ \A p \in DOMAIN Deleted(t, path) : Deleted(t, path)[p] = t[p]
  BY DEF Deleted, Restrict, Below
<1> QED BY <1>1 DEF Contents, ContentsBelow, Below

\* move_v2 and copy_v2 to where nothing is erase nothing: what is moved is found
\* again below the target, and nothing else is in the way.
LEMMA RelocatedKeeps ==
    ASSUME NEW S, NEW t, DOMAIN t \subseteq Seq(S) \ {<<>>},
           NEW from \in Seq(S), NEW to \in Seq(S) \ {<<>>}, NEW moving \in BOOLEAN,
           from \in DOMAIN t, Below(t, to) = {}
    PROVE  LET after == Relocated(t, from, to, moving)
           IN  /\ DOMAIN after \subseteq Seq(S) \ {<<>>} /\ to \in DOMAIN after
               /\ Contents(t) \ Contents(after) = {}
<1> DEFINE after == Relocated(t, from, to, moving)
           Suffix(path, p) == SubSeq(p, Len(path) + 1, Len(p))
           arrivals == {to \o Suffix(from, p) : p \in Below(t, from)}
           stay == IF moving THEN DOMAIN t \ Below(t, from) ELSE DOMAIN t
<1>1. /\ DOMAIN after = stay \cup arrivals
      /\ \A p \in stay \cup arrivals :
            after[p] = IF p \in arrivals THEN t[from \o Suffix(to, p)] ELSE t[p]
  BY DEF Relocated
<1>2. \A p \in Below(t, from) :
        /\ p \in Seq(S) /\ to \o Suffix(from, p) \in Seq(S)
        /\ IsPrefix(to, to \o Suffix(from, p))
        /\ from \o Suffix(to, to \o Suffix(from, p)) = p
        /\ p = from => to \o Suffix(from, p) = to
  <2> SUFFICES ASSUME NEW p \in Below(t, from)
               PROVE  /\ p \in Seq(S) /\ to \o Suffix(from, p) \in Seq(S)
                      /\ IsPrefix(to, to \o Suffix(from, p))
                      /\ from \o Suffix(to, to \o Suffix(from, p)) = p
                      /\ p = from => to \o Suffix(from, p) = to
    OBVIOUS
  <2>1. p \in Seq(S) /\ IsPrefix(from, p)
    BY DEF Below
  <2> QED BY <2>1, Replanted
<1>3. \A q \in arrivals : q \in Seq(S) \ {<<>>} /\ IsPrefix(to, q)
  <2>1. ASSUME NEW q \in arrivals PROVE q \in Seq(S) /\ IsPrefix(to, q)
    <3>1. PICK p \in Below(t, from) : q = to \o Suffix(from, p)
      OBVIOUS
    <3> QED BY <1>2, <3>1
  <2>2. ~IsPrefix(to, <<>>)
    <3>1. Len(to) > 0 /\ Len(<<>>) = 0
      BY EmptySeq
    <3> QED BY <3>1 DEF IsPrefix
  <2> QED BY <2>1, <2>2
<1>4. stay \subseteq DOMAIN t
  OBVIOUS
<1>5. stay \cap arrivals = {}
  BY <1>3, <1>4 DEF Below
<1>6. from \in Below(t, from)
  BY PrefixOrder DEF Below
<1>7. to \in arrivals
  BY <1>2, <1>6
<1>8. ASSUME NEW p \in DOMAIN t PROVE \E q \in DOMAIN after : after[q] = t[p]
  <2>1. CASE p \in Below(t, from)
    <3> DEFINE q == to \o Suffix(from, p)
    <3>1. q \in arrivals
      BY <2>1
    <3>2. after[q] = t[from \o Suffix(to, q)]
      BY <1>1, <3>1
    <3>3. from \o Suffix(to, q) = p
      BY <1>2, <2>1
    <3> QED BY <1>1, <3>1, <3>2, <3>3
  <2>2. CASE p \notin Below(t, from)
    <3>1. p \in stay /\ p \notin arrivals
      BY <1>5, <2>2
    <3> QED BY <1>1, <3>1
  <2> QED BY <2>1, <2>2
<1>9. DOMAIN after \subseteq Seq(S) \ {<<>>} /\ to \in DOMAIN after
  BY <1>1, <1>3, <1>4, <1>7
<1> HIDE DEF after
<1>10. Contents(t) \ Contents(after) = {}
  BY <1>8 DEF Contents
<1> QED BY <1>9, <1>10 DEF after

-----------------------------------------------------------------------------
(* The operation. *)

\* What an operation that is under way asks for.
Steps ==
    /\ pc \in {"idle", "post", "wait"} => outcome = "none"
    /\ pc = "idle" => op = "none" /\ net = {}
    /\ pc \in {"post", "wait"} => op \in {First, Main} /\ <<>> \notin NeedsPath
    /\ op = "none" => net = {}

\* A request on its way was asked for, and none is sent ahead of its turn.
Asked ==
    \A r \in net : r.op \in {First, op} /\ op \in {First, Main} /\ <<>> \notin NeedsPath

\* A reply that has not arrived is the one that is waited for, and true.
Replied ==
    /\ inbox # {} => pc = "wait" /\ Request \notin net
    /\ \A reply \in inbox : reply.status \in Nat /\ (reply.status = 200 /\ op = Main => done)

\* Nothing is below the target if it is not there.
NoOrphans == job.to # <<>> /\ job.to \notin DOMAIN tree => Below(tree, job.to) = {}

\* A clearing delete that nobody waits for was given up on.
GivenUp == \A r \in net : r.op = "clear" => abandoned \/ (pc = "wait" /\ r = Request)

\* Until something was carried anywhere, what is to be carried is where it was.
InPlace ==
    /\ Folder \notin cargo /\ Theirs \notin cargo
    /\ pc = "idle" => \A p, q \in DOMAIN tree :
                         tree[p] = tree[q] => p = q \/ tree[p] \in {Folder, Theirs}
    /\ pc # "idle" /\ op \in {"none", "clear"} =>
          \A p \in DOMAIN tree : tree[p] \in cargo => IsPrefix(job.from, p)

IInv == TypeOK /\ SuccessMeansDone /\ Steps /\ Asked /\ Replied /\ NoOrphans /\ GivenUp /\ InPlace

\* What each operation does in its requests.
LEMMA Requested ==
    ASSUME TypeOK
    PROVE  /\ Main \in Endpoints \ {"clear"} /\ First \in {Main, "clear"}
           /\ First = "clear" <=> job.kind \in {"rename", "copy"} /\ job.overwrite
           /\ Main = "delete" <=> job.kind = "del"
           /\ Main = "create" => job.kind = "mkdir"
           /\ Main \in {"move", "copy"} <=> job.kind \in {"rename", "copy"}
           /\ job.from \in Seq(Names) /\ job.to \in Seq(Names)
           /\ <<>> \notin NeedsPath => job.to # <<>>
           /\ RootError \in Kinds \ {"None"}
<1>1. /\ job.kind \in {"mkdir", "del", "rename", "copy"}
      /\ job.from \in Seq(Names) /\ job.to \in Seq(Names)
  BY JobsAssumption DEF TypeOK, Operations
<1>2. CASE job.kind = "mkdir"
  BY <1>1, <1>2 DEF Main, First, NeedsPath, RootError, Endpoints, Kinds
<1>3. CASE job.kind = "del"
  BY <1>1, <1>3 DEF Main, First, NeedsPath, RootError, Endpoints, Kinds
<1>4. CASE job.kind = "rename"
  BY <1>1, <1>4 DEF Main, First, NeedsPath, RootError, Endpoints, Kinds
<1>5. CASE job.kind = "copy"
  BY <1>1, <1>5 DEF Main, First, NeedsPath, RootError, Endpoints, Kinds
<1> QED BY <1>1, <1>2, <1>3, <1>4, <1>5

\* How an attempt ends.
LEMMA SettleCases ==
    ASSUME TypeOK, NEW status \in Nat, NEW summary, NEW failed \in BOOLEAN,
           Settle(status, summary, failed)
    PROVE  \/ status = 200 /\ Return("ok")
           \/ \E kind \in Kinds \ {"None"} : Return(kind)
           \/ attempt + 1 < MaxRetries /\ \E r \in BOOLEAN : Again(r)
<1> DEFINE verdict == Verdict(attempt, refreshed, status, failed)
<1>1. attempt \in Nat /\ refreshed \in BOOLEAN /\ MaxRetries \in Nat
  BY MaxRetriesAssumption DEF TypeOK
<1>2. /\ verdict = "backoff" => attempt + 1 < MaxRetries
      /\ KindOf(status, failed, summary) \in Kinds \ {"None"}
  BY <1>1, VerdictFacts, KindFacts
<1>3. "Network" \in Kinds \ {"None"}
  BY DEF Kinds
<1>4. \/ Succeeded(status, summary) /\ Return("ok")
      \/ Return(KindOf(status, failed, summary))
      \/ verdict = "backoff" /\ Again(refreshed)
      \/ attempt + 1 < MaxRetries /\ Again(TRUE)
      \/ Return("Network")
  BY DEF Settle
<1> QED BY <1>1, <1>2, <1>3, <1>4 DEF Succeeded

\* A step that leaves the tree and the requests alone.
LEMMA LocalStep ==
    ASSUME IInv, pc \in {"post", "wait"}, pc' \in {"post", "done"},
           UNCHANGED <<job, net, tree, cargo, done, meddling>>, inbox' = {},
           attempt' \in 0 .. MaxRetries - 1, refreshed' \in BOOLEAN,
           \/ UNCHANGED op
           \/ op' = Main,
           pc' = "post" => outcome' = "none",
           pc' = "done" => outcome' \in Outcomes \ {"none"} /\ UNCHANGED op,
           outcome' = "ok" => done,
           abandoned' \in BOOLEAN, abandoned => abandoned',
           \A r \in net : r.op = "clear" => abandoned'
    PROVE  IInv'
<1>1. /\ Main' = Main /\ First' = First /\ NeedsPath' = NeedsPath
  BY DEF Main, First, NeedsPath
<1>2. Main \in Endpoints \ {"clear"} /\ First \in {Main, "clear"}
  BY Requested DEF IInv
<1>3. op \in {First, Main} /\ <<>> \notin NeedsPath /\ pc # "idle" /\ outcome = "none"
  BY DEF IInv, Steps
<1>4. TypeOK'
  <2>1. op' \in Endpoints \cup {"none"}
    BY <1>2 DEF IInv, TypeOK
  <2>2. outcome' \in Outcomes
    BY DEF Outcomes
  <2> QED BY <2>1, <2>2 DEF IInv, TypeOK
<1>5. SuccessMeansDone'
  BY DEF SuccessMeansDone
<1>6. op' # "none"
  BY <1>2, <1>3 DEF Endpoints
<1>7. Steps'
  BY <1>1, <1>3, <1>6 DEF Steps
<1>8. Asked'
  BY <1>1, <1>2, <1>3 DEF IInv, Asked
<1>9. Replied'
  BY DEF Replied
<1>10. NoOrphans'
  BY DEF IInv, NoOrphans, Below
<1>11. GivenUp'
  BY DEF GivenUp
<1>12. InPlace'
  <2>1. op' = "clear" => op = "clear"
    BY <1>2
  <2> QED BY <1>3, <1>6, <2>1 DEF IInv, InPlace
<1> QED BY <1>4, <1>5, <1>7, <1>8, <1>9, <1>10, <1>11, <1>12 DEF IInv

\* send() returns, or goes round again.
LEMMA EndStep ==
    ASSUME IInv, pc \in {"post", "wait"},
           \/ done /\ Return("ok")
           \/ op = "clear" /\ Return("ok")
           \/ \E kind \in Kinds \ {"None"} : Return(kind)
           \/ attempt + 1 < MaxRetries /\ \E r \in BOOLEAN : Again(r),
           UNCHANGED <<job, net, tree, cargo, done, meddling>>, inbox' = {},
           abandoned' \in BOOLEAN, abandoned => abandoned',
           \A r \in net : r.op = "clear" => abandoned'
    PROVE  IInv'
<1>1. /\ outcome = "none" /\ attempt \in 0 .. MaxRetries - 1 /\ refreshed \in BOOLEAN
      /\ MaxRetries \in Nat \ {0}
  BY MaxRetriesAssumption DEF IInv, Steps, TypeOK
<1>2. CASE attempt + 1 < MaxRetries /\ \E r \in BOOLEAN : Again(r)
  <2>1. /\ pc' = "post" /\ UNCHANGED <<op, outcome>> /\ refreshed' \in BOOLEAN
        /\ attempt' \in 0 .. MaxRetries - 1
    BY <1>1, <1>2 DEF Again
  <2> QED BY <1>1, <2>1, LocalStep
<1>3. ASSUME NEW result \in (Kinds \ {"None"}) \cup {"ok"}, Return(result),
             result = "ok" /\ op # "clear" => done
      PROVE  IInv'
  <2>1. CASE op = "clear"
    <3>1. /\ pc' = "post" /\ op' = Main /\ attempt' = 0 /\ refreshed' = FALSE
          /\ UNCHANGED outcome
      BY <1>3, <2>1 DEF Return, Issue
    <3>2. 0 \in 0 .. MaxRetries - 1
      BY MaxRetriesAssumption
    <3>3. attempt' \in 0 .. MaxRetries - 1 /\ refreshed' \in BOOLEAN /\ outcome' = "none"
      BY <1>1, <3>1, <3>2, Zenon
    <3> QED BY <3>1, <3>3, LocalStep
  <2>2. CASE op # "clear"
    <3>1. pc' = "done" /\ outcome' = result /\ UNCHANGED <<op, attempt, refreshed>>
      BY <1>3, <2>2 DEF Return, loopVars
    <3>2. result \in Outcomes \ {"none"}
      BY <1>3 DEF Outcomes, Kinds
    <3> QED BY <1>1, <1>3, <2>2, <3>1, <3>2, LocalStep
  <2> QED BY <2>1, <2>2
<1>4. "ok" \notin Kinds
  BY DEF Kinds
<1> QED BY <1>2, <1>3, <1>4

\* The job is asked, or turned away.
LEMMA BeginStep == ASSUME IInv, Begin PROVE IInv'
<1>1. /\ pc = "idle" /\ op = "none" /\ net = {} /\ outcome = "none" /\ inbox = {}
      /\ UNCHANGED <<job, net, inbox, tree, done, abandoned, meddling>>
      /\ cargo' = ContentsBelow(tree, job.from) \ {Theirs}
  BY DEF IInv, Steps, Replied, Begin
<1>2. /\ Main' = Main /\ First' = First /\ NeedsPath' = NeedsPath
  BY <1>1 DEF Main, First, NeedsPath
<1>3. /\ Main \in Endpoints \ {"clear"} /\ First \in {Main, "clear"}
      /\ RootError \in Kinds \ {"None"}
  BY Requested DEF IInv
<1>4. \/ /\ <<>> \notin NeedsPath /\ pc' = "post" /\ op' = First
         /\ attempt' = 0 /\ refreshed' = FALSE /\ outcome' = "none"
      \/ /\ outcome' \in {"CannotLogin", "Unsupported", RootError} /\ pc' = "done"
         /\ op' = "none" /\ UNCHANGED loopVars
  BY <1>1 DEF Begin, Issue
<1>5. TypeOK'
  <2>1. op' \in Endpoints \cup {"none"}
    BY <1>3, <1>4 DEF Endpoints
  <2>2. outcome' \in Outcomes
    BY <1>3, <1>4 DEF Outcomes
  <2>3. attempt' \in 0 .. MaxRetries - 1 /\ refreshed' \in BOOLEAN
    <3>1. 0 \in 0 .. MaxRetries - 1
      BY MaxRetriesAssumption
    <3>2. attempt \in 0 .. MaxRetries - 1 /\ refreshed \in BOOLEAN
      BY DEF IInv, TypeOK
    <3> QED BY <1>4, <3>1, <3>2 DEF loopVars
  <2> QED BY <1>1, <1>4, <2>1, <2>2, <2>3 DEF IInv, TypeOK
<1>6. SuccessMeansDone'
  BY <1>3, <1>4 DEF SuccessMeansDone, Kinds
<1>7. Steps' /\ Asked' /\ Replied' /\ GivenUp'
  <2>1. First # "none"
    BY <1>3 DEF Endpoints
  <2> QED BY <1>1, <1>2, <1>4, <2>1 DEF Steps, Asked, Replied, GivenUp
<1>8. NoOrphans'
  BY <1>1 DEF IInv, NoOrphans, Below
<1>9. InPlace'
  <2>1. \A p \in DOMAIN tree : tree[p] \in cargo' => IsPrefix(job.from, p)
    <3> SUFFICES ASSUME NEW p \in DOMAIN tree, tree[p] \in cargo'
                 PROVE  IsPrefix(job.from, p)
      OBVIOUS
    <3>1. PICK q \in Below(tree, job.from) : tree[q] = tree[p] /\ tree[p] \notin {Folder, Theirs}
      BY <1>1 DEF ContentsBelow
    <3>2. q = p
      BY <1>1, <3>1 DEF IInv, InPlace, Below
    <3> QED BY <3>1, <3>2 DEF Below
  <2>2. Folder \notin cargo' /\ Theirs \notin cargo'
    BY <1>1 DEF ContentsBelow
  <2> QED BY <1>1, <1>4, <2>1, <2>2 DEF InPlace
<1> QED BY <1>5, <1>6, <1>7, <1>8, <1>9 DEF IInv

\* An attempt is posted, or there is no token.
LEMMA PostStep == ASSUME IInv, Post PROVE IInv'
<1>1. /\ pc = "post" /\ inbox = {} /\ op \in {First, Main} /\ <<>> \notin NeedsPath
      /\ UNCHANGED <<job, inbox, tree, history>>
  BY DEF IInv, Steps, Replied, Post
<1>2. CASE Return("Authentication") /\ UNCHANGED net
  <2>1. "Authentication" \in Kinds \ {"None"}
    BY DEF Kinds
  <2>2. \A r \in net : r.op = "clear" => abandoned
    BY <1>1 DEF IInv, GivenUp
  <2> QED BY <1>1, <1>2, <2>1, <2>2, EndStep DEF history, IInv, TypeOK
<1>3. CASE /\ pc' = "wait" /\ net' = net \cup {Request}
           /\ UNCHANGED <<op, loopVars, outcome>>
  <2>1. /\ Main' = Main /\ First' = First /\ NeedsPath' = NeedsPath /\ Request' = Request
    BY <1>1, <1>3 DEF Main, First, NeedsPath, Request, loopVars
  <2>2. Request \in Requests /\ Request.op = op
    <3>1. op \in Endpoints
      BY <1>1, Requested DEF IInv, Endpoints
    <3> QED BY <3>1 DEF Request, Requests, IInv, TypeOK
  <2>3. TypeOK' /\ SuccessMeansDone'
    BY <1>1, <1>3, <2>2 DEF IInv, TypeOK, SuccessMeansDone, loopVars, history
  <2>4. op # "none"
    BY <1>1, Requested DEF IInv, Endpoints
  <2>5. Steps' /\ Asked'
    BY <1>1, <1>3, <2>1, <2>2, <2>4 DEF IInv, Steps, Asked
  <2>6. Replied' /\ GivenUp'
    BY <1>1, <1>3, <2>1 DEF IInv, Replied, GivenUp, history
  <2>7. NoOrphans' /\ InPlace'
    BY <1>1, <1>3 DEF IInv, NoOrphans, Below, InPlace, history
  <2> QED BY <2>3, <2>5, <2>6, <2>7 DEF IInv
<1> QED BY <1>2, <1>3 DEF Post

\* A reply arrives: the request is not on its way any more.
LEMMA ReceiveStep == ASSUME IInv, Receive PROVE IInv'
<1>1. PICK reply \in inbox :
        \E summary \in {reply.summary, {}} : Settle(reply.status, summary, FALSE)
  BY DEF Receive
<1>2. /\ pc = "wait" /\ inbox' = {} /\ UNCHANGED <<job, net, tree, history>>
  BY DEF Receive
<1>3. /\ reply.status \in Nat /\ (reply.status = 200 /\ op = Main => done)
      /\ Request \notin net /\ op \in {First, Main}
  BY <1>1, <1>2 DEF IInv, Replied, Steps
<1>4. op = Main \/ op = "clear"
  BY <1>3, Requested DEF IInv
<1>5. \/ reply.status = 200 /\ Return("ok")
      \/ \E kind \in Kinds \ {"None"} : Return(kind)
      \/ attempt + 1 < MaxRetries /\ \E r \in BOOLEAN : Again(r)
  BY <1>1, <1>3, SettleCases DEF IInv
<1>6. \A r \in net : r.op = "clear" => abandoned
  BY <1>3 DEF IInv, GivenUp
<1> QED BY <1>2, <1>3, <1>4, <1>5, <1>6, EndStep DEF history, IInv, TypeOK

\* The timer ends the wait. If the request is still on its way it may yet come.
LEMMA LoseStep == ASSUME IInv, Lose PROVE IInv'
<1>1. /\ pc = "wait" /\ inbox' = {} /\ UNCHANGED <<job, net, tree, cargo, done, meddling>>
      /\ abandoned' = (abandoned \/ (op = "clear" /\ Request \in net))
      /\ Settle(NoStatus, {}, TRUE)
  BY DEF Lose
<1>2. \/ \E kind \in Kinds \ {"None"} : Return(kind)
      \/ attempt + 1 < MaxRetries /\ \E r \in BOOLEAN : Again(r)
  <2>1. NoStatus \in Nat /\ NoStatus # 200
    BY DEF NoStatus
  <2> QED BY <1>1, <2>1, SettleCases DEF IInv
<1>3. \A r \in net : r.op = "clear" => abandoned'
  <2> SUFFICES ASSUME NEW r \in net, r.op = "clear" PROVE abandoned'
    OBVIOUS
  <2>1. CASE r = Request
    BY <1>1, <2>1 DEF Request
  <2>2. CASE r # Request
    BY <1>1, <2>2 DEF IInv, GivenUp
  <2> QED BY <2>1, <2>2
<1>4. abandoned' \in BOOLEAN
  BY <1>1 DEF IInv, TypeOK
<1> QED BY <1>1, <1>2, <1>3, <1>4, EndStep

\* What a request does to the tree: only a delete erases anything, below its target.
LEMMA Carried ==
    ASSUME IInv, NEW r \in net, Refusal(r.op) = {}, tree' = Effect(r.op), UNCHANGED job
    PROVE  /\ DOMAIN tree' \subseteq Seq(Names) \ {<<>>} /\ NoOrphans'
           /\ r.op \notin {"delete", "clear"} => Erased = {}
           /\ r.op \in {"delete", "clear"} =>
                 /\ Erased \subseteq ContentsBelow(tree, job.to)
                 /\ \A p \in DOMAIN tree' : p \in DOMAIN tree /\ tree'[p] = tree[p]
<1>1. /\ DOMAIN tree \subseteq Seq(Names) \ {<<>>} /\ r.op \in Endpoints
      /\ job.from \in Seq(Names) /\ job.to \in Seq(Names) \ {<<>>}
  BY Requested DEF IInv, TypeOK, Asked, Requests
<1>2. CASE r.op = "create"
  <2>1. job.to \notin DOMAIN tree /\ tree' = Created(tree, job.to)
    BY <1>2 DEF Refusal, Effect, CreateRefused
  <2>2. /\ DOMAIN Created(tree, job.to) = DOMAIN tree \cup {job.to}
        /\ Contents(tree) \ Contents(Created(tree, job.to)) = {}
    BY <2>1, CreatedKeeps
  <2>3. DOMAIN tree' = DOMAIN tree \cup {job.to} /\ Contents(tree) \ Contents(tree') = {}
    BY <2>1, <2>2
  <2> QED BY <1>1, <1>2, <2>3 DEF Erased, NoOrphans, Below
<1>3. CASE r.op \in {"delete", "clear"}
  <2>1. tree' = Deleted(tree, job.to)
    BY <1>3 DEF Effect
  <2> DEFINE after == Deleted(tree, job.to)
  <2>2. /\ DOMAIN after = {p \in DOMAIN tree : ~IsPrefix(job.to, p)}
        /\ \A p \in DOMAIN after : after[p] = tree[p]
        /\ Contents(tree) \ Contents(after) \subseteq ContentsBelow(tree, job.to)
    BY DeletedErases
  <2> HIDE DEF after
  <2>3. tree' = after
    BY <2>1 DEF after
  <2>4. /\ DOMAIN tree' = {p \in DOMAIN tree : ~IsPrefix(job.to, p)}
        /\ \A p \in DOMAIN tree' : tree'[p] = tree[p]
        /\ Erased \subseteq ContentsBelow(tree, job.to)
    BY <2>2, <2>3 DEF Erased
  <2>5. NoOrphans'
    BY <2>4 DEF NoOrphans, Below
  <2> QED BY <1>1, <1>3, <2>4, <2>5
<1>4. CASE r.op \in {"move", "copy"}
  <2>1. /\ job.from \in DOMAIN tree /\ job.to \notin DOMAIN tree
        /\ tree' = Relocated(tree, job.from, job.to, r.op = "move")
    BY <1>4 DEF Refusal, Effect, RelocateRefused
  <2>2. Below(tree, job.to) = {}
    BY <1>1, <2>1 DEF IInv, NoOrphans
  <2> DEFINE moving == r.op = "move"
             after == Relocated(tree, job.from, job.to, moving)
  <2>3. /\ DOMAIN after \subseteq Seq(Names) \ {<<>>} /\ job.to \in DOMAIN after
        /\ Contents(tree) \ Contents(after) = {}
    <3>1. moving \in BOOLEAN
      OBVIOUS
    <3> HIDE DEF moving
    <3> QED BY <1>1, <2>1, <2>2, <3>1, RelocatedKeeps
  <2>4. tree' = after
    BY <2>1
  <2> HIDE DEF after
  <2>5. DOMAIN tree' \subseteq Seq(Names) \ {<<>>} /\ job.to \in DOMAIN tree' /\ Erased = {}
    BY <2>3, <2>4 DEF Erased
  <2> QED BY <1>4, <2>5 DEF NoOrphans
<1> QED BY <1>1, <1>2, <1>3, <1>4 DEF Endpoints

\* The server deals with a request that was asked for.
LEMMA ServeStep == ASSUME IInv, Serve PROVE IInv'
<1>1. PICK r \in net :
        /\ net' = net \ {r}
        /\ \/ /\ \E status \in {401, 429, 503} : Answer(r, status, {})
              /\ UNCHANGED <<tree, done>>
           \/ /\ Refusal(r.op) # {} /\ Answer(r, 409, Refusal(r.op))
              /\ UNCHANGED <<tree, done>>
           \/ /\ Refusal(r.op) = {} /\ Answer(r, 200, {})
              /\ tree' = Effect(r.op)
              /\ done' = (done \/ r.op = Main)
        /\ UNCHANGED <<job, pc, op, loopVars, outcome, cargo, abandoned, meddling>>
  BY DEF Serve
<1>2. /\ Main' = Main /\ First' = First /\ NeedsPath' = NeedsPath /\ Request' = Request
  BY <1>1 DEF Main, First, NeedsPath, Request, loopVars
<1>3. /\ done => done'
      /\ done' \in BOOLEAN
      /\ \/ UNCHANGED tree
         \/ Refusal(r.op) = {} /\ tree' = Effect(r.op)
  BY <1>1 DEF IInv, TypeOK
<1>4. /\ DOMAIN tree' \subseteq Seq(Names) \ {<<>>} /\ NoOrphans'
      /\ r.op \in {"delete", "clear"} =>
            \A p \in DOMAIN tree' : p \in DOMAIN tree /\ tree'[p] = tree[p]
  <2>1. CASE UNCHANGED tree
    BY <1>1, <2>1 DEF IInv, TypeOK, NoOrphans, Below
  <2> QED BY <1>1, <1>3, <2>1, Carried
<1>5. TypeOK' /\ SuccessMeansDone'
  <2>1. net' \subseteq Requests
    BY <1>1 DEF IInv, TypeOK
  <2>2. DOMAIN tree' \subseteq Seq(Names) \ {<<>>}
    BY <1>4
  <2>3. UNCHANGED <<job, pc, op, attempt, refreshed, outcome, abandoned, meddling>>
    BY <1>1 DEF loopVars
  <2>4. TypeOK'
    BY <1>3, <2>1, <2>2, <2>3 DEF IInv, TypeOK
  <2>5. SuccessMeansDone'
    BY <1>3, <2>3 DEF IInv, SuccessMeansDone
  <2> QED BY <2>4, <2>5
<1>6. Steps' /\ Asked' /\ GivenUp'
  BY <1>1, <1>2 DEF IInv, Steps, Asked, GivenUp
<1>7. Replied'
  <2>1. CASE pc = "wait" /\ r = Request
    <3>1. \A status, summary :
            Answer(r, status, summary) => inbox' = {[status |-> status, summary |-> summary]}
      BY <2>1 DEF Answer
    <3>2. \A reply \in inbox' : reply.status \in Nat /\ (reply.status = 200 => done' \/ op # Main)
      <4>1. CASE \E status \in {401, 429, 503} : Answer(r, status, {})
        BY <3>1, <4>1
      <4>2. CASE Answer(r, 409, Refusal(r.op))
        BY <3>1, <4>2
      <4>3. CASE Answer(r, 200, {}) /\ done' = (done \/ r.op = Main)
        <5>1. r.op = op
          BY <2>1 DEF Request
        <5>2. done' \/ op # Main
          BY <4>3, <5>1
        <5> QED BY <3>1, <4>3, <5>2
      <4> QED BY <1>1, <4>1, <4>2, <4>3
    <3>3. pc' = "wait" /\ Request \notin net' /\ op' = op
      BY <1>1, <2>1
    <3> QED BY <1>2, <3>2, <3>3 DEF Replied
  <2>2. CASE ~(pc = "wait" /\ r = Request)
    <3>1. inbox' = inbox
      BY <1>1, <2>2 DEF Answer
    <3> QED BY <1>1, <1>2, <1>3, <3>1 DEF IInv, Replied
  <2> QED BY <2>1, <2>2
<1>8. InPlace'
  <2>1. pc # "idle" /\ op # "none"
    BY <1>1 DEF IInv, Steps
  <2>2. op = "clear" => r.op = "clear"
    BY Requested DEF IInv, Asked
  <2> QED BY <1>1, <1>4, <2>1, <2>2 DEF IInv, InPlace
<1> QED BY <1>4, <1>5, <1>6, <1>7, <1>8 DEF IInv

\* What is below a path is the path, or in a folder below it.
LEMMA BelowParent ==
    ASSUME NEW S, NEW s \in Seq(S) \ {<<>>}, NEW t \in Seq(S) \ {<<>>}, IsPrefix(s, t), s # t
    PROVE  Len(t) # 1 /\ IsPrefix(s, Front(t))
<1>1. /\ Len(s) \in Nat \ {0} /\ Len(t) \in Nat \ {0} /\ Len(s) <= Len(t)
      /\ \A i \in 1..Len(s) : s[i] = t[i]
  BY EmptySeq, PrefixNames
<1>2. Len(s) # Len(t)
  BY <1>1, SeqEqual
<1> DEFINE n == Len(t) - 1
<1>3. n \in Nat /\ Len(s) <= n /\ \A i \in 1..n : t[i] \in S
  BY <1>1, <1>2, ElementOfSeq
<1> HIDE DEF n
<1>4. /\ SubSeq(t, 1, n) \in Seq(S)
      /\ Len(SubSeq(t, 1, n)) = IF 1 <= n THEN n - 1 + 1 ELSE 0
      /\ \A i \in 1 .. n - 1 + 1 : SubSeq(t, 1, n)[i] = t[1 + i - 1]
  BY <1>3, SubSeqProperties
<1>5. Len(SubSeq(t, 1, n)) = n /\ \A i \in 1..n : SubSeq(t, 1, n)[i] = t[i]
  BY <1>3, <1>4
<1>6. \A i \in 1..Len(s) : s[i] = SubSeq(t, 1, n)[i]
  BY <1>1, <1>3, <1>5
<1>7. IsPrefix(s, SubSeq(t, 1, n))
  BY <1>3, <1>4, <1>5, <1>6, PrefixNames
<1> QED BY <1>1, <1>2, <1>7 DEF n, Front

\* Other clients write where there is a folder, and delete as a whole.
LEMMA MeddleStep == ASSUME IInv, Meddle PROVE IInv'
<1>1. /\ meddling < MaxMeddling /\ meddling' = meddling + 1
      /\ UNCHANGED <<job, pc, op, loopVars, outcome, net, inbox, cargo, done, abandoned>>
  BY DEF Meddle
<1>2. PICK spot \in Spots :
        \/ /\ spot \notin DOMAIN tree /\ HasParent(tree, spot)
           /\ tree' = [Created(tree, spot) EXCEPT ![spot] = Theirs]
        \/ spot \in DOMAIN tree /\ tree' = Deleted(tree, spot)
  BY DEF Meddle
<1>3. /\ spot \in Seq(Names) \ {<<>>} /\ job.to \in Seq(Names)
      /\ DOMAIN tree \subseteq Seq(Names) \ {<<>>}
  BY SpotsAssumption, Requested DEF IInv, TypeOK
<1>4. /\ DOMAIN tree' \subseteq Seq(Names) \ {<<>>} /\ NoOrphans'
      /\ \A p \in DOMAIN tree' : \/ p \in DOMAIN tree /\ tree'[p] = tree[p]
                                 \/ tree'[p] = Theirs
  <2>1. CASE /\ spot \notin DOMAIN tree /\ HasParent(tree, spot)
             /\ tree' = [Created(tree, spot) EXCEPT ![spot] = Theirs]
    <3>1. DOMAIN tree' = DOMAIN tree \cup {spot} /\ tree'[spot] = Theirs
          /\ \A p \in DOMAIN tree : tree'[p] = tree[p]
      <4> DEFINE after == Created(tree, spot)
      <4>1. /\ DOMAIN after = DOMAIN tree \cup {spot}
            /\ \A p \in DOMAIN tree : after[p] = tree[p]
        BY <2>1, CreatedKeeps
      <4>2. tree' = [after EXCEPT ![spot] = Theirs]
        BY <2>1
      <4> HIDE DEF after
      <4> QED BY <2>1, <4>1, <4>2
    <3>2. NoOrphans'
      <4> SUFFICES ASSUME job.to # <<>>, job.to \notin DOMAIN tree', Below(tree', job.to) # {}
                   PROVE  FALSE
        BY <1>1 DEF NoOrphans
      <4>1. Below(tree, job.to) = {}
        BY <3>1 DEF IInv, NoOrphans
      <4>2. IsPrefix(job.to, spot) /\ job.to # spot
        BY <3>1, <4>1 DEF Below
      <4>3. Len(spot) # 1 /\ IsPrefix(job.to, Front(spot))
        BY <1>3, <4>2, BelowParent
      <4> QED BY <2>1, <4>1, <4>3 DEF HasParent, Below
    <3> QED BY <1>3, <3>1, <3>2
  <2>2. CASE spot \in DOMAIN tree /\ tree' = Deleted(tree, spot)
    <3>1. /\ DOMAIN tree' = {p \in DOMAIN tree : ~IsPrefix(spot, p)}
          /\ \A p \in DOMAIN tree' : tree'[p] = tree[p]
      <4> DEFINE after == Deleted(tree, spot)
      <4>1. /\ DOMAIN after = {p \in DOMAIN tree : ~IsPrefix(spot, p)}
            /\ \A p \in DOMAIN after : after[p] = tree[p]
        BY DeletedErases
      <4>2. tree' = after
        BY <2>2
      <4> HIDE DEF after
      <4> QED BY <4>1, <4>2
    <3>2. NoOrphans'
      <4> SUFFICES ASSUME job.to # <<>>, job.to \notin DOMAIN tree',
                          NEW p \in DOMAIN tree', IsPrefix(job.to, p)
                   PROVE  FALSE
        BY <1>1 DEF NoOrphans, Below
      <4>1. p \in DOMAIN tree /\ ~IsPrefix(spot, p)
        BY <3>1
      <4>2. IsPrefix(spot, job.to)
        BY <3>1, <4>1 DEF IInv, NoOrphans, Below
      <4> QED BY <1>3, <4>1, <4>2, PrefixOrder
    <3> QED BY <1>3, <3>1, <3>2
  <2> QED BY <1>2, <2>1, <2>2
<1>5. TypeOK' /\ SuccessMeansDone'
  <2>1. meddling' \in 0..MaxMeddling
    BY <1>1, SpotsAssumption DEF IInv, TypeOK
  <2> QED BY <1>1, <1>4, <2>1 DEF IInv, TypeOK, SuccessMeansDone, loopVars
<1>6. Main' = Main /\ First' = First /\ NeedsPath' = NeedsPath /\ Request' = Request
  BY <1>1 DEF Main, First, NeedsPath, Request, loopVars
<1>7. Steps' /\ Asked' /\ Replied' /\ GivenUp'
  BY <1>1, <1>6 DEF IInv, Steps, Asked, Replied, GivenUp
<1>8. InPlace'
  <2>1. Theirs \notin cargo
    BY DEF IInv, InPlace
  <2> QED BY <1>1, <1>4, <2>1 DEF IInv, InPlace
<1> QED BY <1>4, <1>5, <1>7, <1>8 DEF IInv

\* At first nothing was asked of anybody, and the tree has no gaps.
LEMMA Initially == Init => IInv
<1> SUFFICES ASSUME Init PROVE IInv
  OBVIOUS
<1>1. /\ job \in Jobs /\ job.to \in Seq(Names) /\ tree \in Trees
      /\ DOMAIN tree \subseteq Seq(Names) \ {<<>>}
      /\ \A p \in DOMAIN tree : \A n \in 1..Len(p) : SubSeq(p, 1, n) \in DOMAIN tree
      /\ \A p, q \in DOMAIN tree : tree[p] = tree[q] => p = q \/ tree[p] = Folder
  BY JobsAssumption, TreesAssumption DEF Init
<1>2. TypeOK
  <2>1. 0 \in 0 .. MaxRetries - 1
    BY MaxRetriesAssumption
  <2>2. 0 \in 0..MaxMeddling
    BY SpotsAssumption
  <2>3. outcome \in Outcomes
    BY DEF Init, Outcomes
  <2>4. attempt \in 0 .. MaxRetries - 1 /\ meddling \in 0..MaxMeddling
    BY <2>1, <2>2, Zenon DEF Init
  <2>5. /\ pc = "idle" /\ op = "none" /\ refreshed = FALSE /\ net = {}
        /\ done = FALSE /\ abandoned = FALSE
    BY DEF Init
  <2> QED BY <1>1, <2>3, <2>4, <2>5 DEF TypeOK
<1>3. SuccessMeansDone /\ Steps /\ Asked /\ Replied /\ GivenUp
  BY DEF Init, SuccessMeansDone, Steps, Asked, Replied, GivenUp
<1>4. NoOrphans
  <2> SUFFICES ASSUME job.to # <<>>, NEW p \in DOMAIN tree, IsPrefix(job.to, p)
               PROVE  job.to \in DOMAIN tree
    BY DEF NoOrphans, Below
  <2>1. /\ Len(job.to) \in Nat \ {0} /\ Len(job.to) <= Len(p) /\ Len(p) \in Nat
        /\ SubSeq(job.to, 1, Len(job.to)) = SubSeq(p, 1, Len(job.to))
    BY <1>1, EmptySeq, LenProperties DEF IsPrefix
  <2>2. SubSeq(job.to, 1, Len(job.to)) = job.to
    BY <1>1, SubSeqFull
  <2>3. Len(job.to) \in 1..Len(p)
    BY <2>1
  <2>4. SubSeq(p, 1, Len(job.to)) \in DOMAIN tree
    BY <1>1, <2>3
  <2> QED BY <2>1, <2>2, <2>4
<1>5. InPlace
  BY <1>1 DEF Init, InPlace
<1> QED BY <1>2, <1>3, <1>4, <1>5 DEF IInv

-----------------------------------------------------------------------------
\* Whatever is lost, late or repeated, and whatever others do, the invariant stays.
THEOREM Invariance == Spec => []IInv
<1>1. IInv /\ [Next]_vars => IInv'
  <2> SUFFICES ASSUME IInv, [Next]_vars PROVE IInv'
    OBVIOUS
  <2>1. CASE UNCHANGED vars
    <3>1. /\ UNCHANGED <<job, pc, op, attempt, refreshed, outcome, net, inbox, tree, cargo,
                        done, abandoned, meddling>>
      BY <2>1 DEF vars, loopVars, history
    <3>2. Main' = Main /\ First' = First /\ NeedsPath' = NeedsPath /\ Request' = Request
      BY <3>1 DEF Main, First, NeedsPath, Request
    <3>3. TypeOK' /\ SuccessMeansDone' /\ Steps' /\ Asked'
      BY <3>1, <3>2 DEF IInv, TypeOK, SuccessMeansDone, Steps, Asked
    <3>4. Replied' /\ NoOrphans' /\ GivenUp' /\ InPlace'
      BY <3>1, <3>2 DEF IInv, Replied, NoOrphans, Below, GivenUp, InPlace
    <3> QED BY <3>3, <3>4 DEF IInv
  <2>2. CASE Begin
    BY <2>2, BeginStep
  <2>3. CASE Post
    BY <2>3, PostStep
  <2>4. CASE Receive
    BY <2>4, ReceiveStep
  <2>5. CASE Lose
    BY <2>5, LoseStep
  <2>6. CASE Serve
    BY <2>6, ServeStep
  <2>7. CASE Meddle
    BY <2>7, MeddleStep
  <2> QED BY <2>1, <2>2, <2>3, <2>4, <2>5, <2>6, <2>7 DEF Next
<1> QED BY <1>1, Initially, PTL DEF Spec

\* Every variable has its type and every loop its bound, for any tree and job.
THEOREM TypeCorrect == Spec => []TypeOK
<1>1. IInv => TypeOK
  BY DEF IInv
<1> QED BY <1>1, Invariance, PTL

\* An operation that reports success was carried out by the server.
THEOREM SuccessIsDone == Spec => []SuccessMeansDone
<1>1. IInv => SuccessMeansDone
  BY DEF IInv
<1> QED BY <1>1, Invariance, PTL

\* A step of the worker or the server that erases something is a delete.
LEMMA ErasingStep ==
    ASSUME IInv, [Next]_vars, Ours, Erased # {}
    PROVE  \E r \in net : /\ r.op \in {"delete", "clear"}
                          /\ Erased \subseteq ContentsBelow(tree, job.to)
<1>1. tree' # tree
  BY DEF Erased
<1>2. ~Meddle
  <2>1. meddling \in Nat
    BY DEF IInv, TypeOK
  <2> QED BY <2>1 DEF Ours, Meddle
<1>3. Serve
  BY <1>1, <1>2 DEF Next, vars, Begin, Post, Receive, Lose, history
<1>4. PICK r \in net : Refusal(r.op) = {} /\ tree' = Effect(r.op) /\ UNCHANGED job
  BY <1>1, <1>3 DEF Serve
<1> QED BY <1>4, Carried

\* del() and the delete that clears the way of an overwriting rename() or copy()
\* are the only steps that erase files, and only at or below the target.
THEOREM TargetOnly == Spec => OnlyTargetErased
<1>1. IInv /\ [Next]_vars =>
        (Ours /\ Erased # {} =>
            /\ job.kind = "del" \/ (job.kind \in {"rename", "copy"} /\ job.overwrite)
            /\ Erased \subseteq ContentsBelow(tree, job.to))
  <2> SUFFICES ASSUME IInv, [Next]_vars, Ours, Erased # {}
               PROVE  /\ job.kind = "del" \/ (job.kind \in {"rename", "copy"} /\ job.overwrite)
                      /\ Erased \subseteq ContentsBelow(tree, job.to)
    OBVIOUS
  <2>1. PICK r \in net : /\ r.op \in {"delete", "clear"}
                         /\ Erased \subseteq ContentsBelow(tree, job.to)
    BY ErasingStep
  <2>2. Main = "delete" \/ First = "clear"
    BY <2>1, Requested DEF IInv, Asked
  <2> QED BY <2>1, <2>2, Requested DEF IInv
<1> QED BY <1>1, Invariance, PTL DEF Spec, OnlyTargetErased

\* An overwriting rename() or copy() between two places that do not hold each other
\* only erases what it was to carry if its clearing delete was given up on.
THEOREM SourceIsSafe == Spec => SourceSafe
<1>1. IInv /\ [Next]_vars =>
        (Ours /\ job.kind \in {"rename", "copy"} /\ Erased \cap cargo # {} =>
            /\ job.overwrite
            /\ Nested \/ abandoned)
  <2> SUFFICES ASSUME IInv, [Next]_vars, Ours, job.kind \in {"rename", "copy"},
                      NEW c \in Erased \cap cargo
               PROVE  job.overwrite /\ (~abandoned => Nested)
    OBVIOUS
  <2>1. PICK r \in net : /\ r.op \in {"delete", "clear"}
                         /\ Erased \subseteq ContentsBelow(tree, job.to)
    BY ErasingStep
  <2>2. Main # "delete" /\ Main # "clear"
    BY Requested DEF IInv
  <2>3. r.op = "clear" /\ First = "clear"
    BY <2>1, <2>2, Requested DEF IInv, Asked
  <2>4. ASSUME ~abandoned PROVE Nested
    <3>1. pc = "wait" /\ op = "clear"
      BY <2>1, <2>3, <2>4 DEF IInv, GivenUp, Request
    <3>2. PICK p \in Below(tree, job.to) : tree[p] = c
      BY <2>1 DEF ContentsBelow
    <3>3. p \in DOMAIN tree /\ IsPrefix(job.to, p) /\ IsPrefix(job.from, p)
      BY <3>1, <3>2 DEF IInv, InPlace, Below
    <3>4. p \in Seq(Names) /\ job.to \in Seq(Names) /\ job.from \in Seq(Names)
      BY <3>3, Requested DEF IInv, TypeOK
    <3> QED BY <3>3, <3>4, PrefixOrder DEF Nested
  <2> QED BY <2>3, <2>4, Requested DEF IInv
<1> QED BY <1>1, Invariance, PTL DEF Spec, SourceSafe

-----------------------------------------------------------------------------
(* How long an operation may take. *)

\* The steps of its own an operation has left at most: two for each attempt of the
\* request under way, one of them when it is posted, and of the one after it.
Left ==
    CASE pc = "idle" -> 4 * MaxRetries + 1
      [] pc = "post" -> (IF op = "clear" THEN 2 * MaxRetries ELSE 0) + 2 * (MaxRetries - attempt)
      [] pc = "wait" -> (IF op = "clear" THEN 2 * MaxRetries ELSE 0) + 2 * (MaxRetries - attempt) - 1
      [] pc = "done" -> 0

\* It has some left unless it has returned.
LEMMA LeftType ==
    ASSUME TypeOK
    PROVE  Left \in 0 .. 4 * MaxRetries + 1 /\ (Left = 0 <=> pc = "done")
<1> DEFINE other == IF op = "clear" THEN 2 * MaxRetries ELSE 0
<1>1. /\ MaxRetries \in Nat \ {0} /\ attempt \in 0 .. MaxRetries - 1
      /\ pc \in {"idle", "post", "wait", "done"} /\ other \in 0 .. 2 * MaxRetries
  BY MaxRetriesAssumption DEF TypeOK
<1>2. /\ pc = "idle" => Left = 4 * MaxRetries + 1
      /\ pc = "post" => Left = other + 2 * (MaxRetries - attempt)
      /\ pc = "wait" => Left = other + 2 * (MaxRetries - attempt) - 1
      /\ pc = "done" => Left = 0
  BY DEF Left
<1> HIDE DEF other
<1> QED BY <1>1, <1>2

\* What an attempt ends in is nearer to the end.
LEMMA EndIsNearer ==
    ASSUME IInv, pc \in {"post", "wait"},
           \/ \E result : Return(result)
           \/ pc = "wait" /\ attempt + 1 < MaxRetries /\ \E r \in BOOLEAN : Again(r)
    PROVE  Left' < Left
<1>1. MaxRetries \in Nat \ {0} /\ attempt \in 0 .. MaxRetries - 1
  BY MaxRetriesAssumption DEF IInv, TypeOK
<1>2. CASE \E result : Return(result)
  <2>1. CASE op = "clear"
    <3>1. pc' = "post" /\ op' = Main /\ attempt' = 0
      BY <1>2, <2>1 DEF Return, Issue
    <3>2. Main # "clear"
      BY Requested DEF IInv
    <3>3. Left' = 2 * MaxRetries
      BY <1>1, <3>1, <3>2 DEF Left
    <3>4. Left > 2 * MaxRetries
      BY <1>1, <2>1 DEF Left
    <3> QED BY <3>3, <3>4, <1>1, LeftType DEF IInv
  <2>2. CASE op # "clear"
    <3>1. pc' = "done"
      BY <1>2, <2>2 DEF Return
    <3>2. Left' = 0 /\ Left > 0
      BY <1>1, <2>2, <3>1 DEF Left
    <3> QED BY <3>2
  <2> QED BY <2>1, <2>2
<1>3. CASE pc = "wait" /\ attempt + 1 < MaxRetries /\ \E r \in BOOLEAN : Again(r)
  <2>1. pc' = "post" /\ op' = op /\ attempt' = attempt + 1
    BY <1>3 DEF Again
  <2>2. CASE op = "clear"
    BY <1>1, <1>3, <2>1, <2>2 DEF Left
  <2>3. CASE op # "clear"
    BY <1>1, <1>3, <2>1, <2>3 DEF Left
  <2> QED BY <2>2, <2>3
<1> QED BY <1>2, <1>3

\* Each step of the worker is one step less.
LEMMA WorkerIsNearer == ASSUME IInv, Begin \/ Post \/ Receive \/ Lose PROVE Left' < Left
<1>1. MaxRetries \in Nat \ {0} /\ attempt \in 0 .. MaxRetries - 1
  BY MaxRetriesAssumption DEF IInv, TypeOK
<1>2. CASE Begin
  <2>1. pc = "idle" /\ (pc' = "done" \/ (pc' = "post" /\ attempt' = 0))
    BY <1>2 DEF Begin, Issue
  <2>2. Left = 4 * MaxRetries + 1
    BY <2>1 DEF Left
  <2>3. CASE pc' = "done"
    <3>1. Left' = 0
      BY <2>3 DEF Left
    <3> QED BY <1>1, <2>2, <3>1
  <2>4. CASE pc' = "post" /\ attempt' = 0
    <3>1. Left' = (IF op' = "clear" THEN 2 * MaxRetries ELSE 0) + 2 * (MaxRetries - 0)
      BY <2>4 DEF Left
    <3> QED BY <1>1, <2>2, <3>1
  <2> QED BY <2>1, <2>3, <2>4
<1>3. CASE Post
  <2>1. pc = "post"
    BY <1>3 DEF Post
  <2>2. CASE Return("Authentication")
    BY <2>1, <2>2, EndIsNearer
  <2>3. CASE pc' = "wait" /\ UNCHANGED <<op, attempt>>
    BY <1>1, <2>1, <2>3 DEF Left
  <2> QED BY <1>3, <2>2, <2>3 DEF Post, loopVars
<1>4. CASE Receive
  <2>1. PICK reply \in inbox :
          \E summary \in {reply.summary, {}} : Settle(reply.status, summary, FALSE)
    BY <1>4 DEF Receive
  <2>2. reply.status \in Nat /\ pc = "wait"
    BY <1>4, <2>1 DEF Receive, IInv, Replied
  <2>3. \/ \E result : Return(result)
        \/ attempt + 1 < MaxRetries /\ \E r \in BOOLEAN : Again(r)
    BY <2>1, <2>2, SettleCases DEF IInv
  <2> QED BY <2>2, <2>3, EndIsNearer
<1>5. CASE Lose
  <2>1. pc = "wait" /\ Settle(NoStatus, {}, TRUE) /\ NoStatus \in Nat
    BY <1>5 DEF Lose, NoStatus
  <2>2. \/ \E result : Return(result)
        \/ attempt + 1 < MaxRetries /\ \E r \in BOOLEAN : Again(r)
    BY <2>1, SettleCases DEF IInv
  <2> QED BY <2>1, <2>2, EndIsNearer
<1> QED BY <1>2, <1>3, <1>4, <1>5

\* No operation goes on for ever: each step of mkdir(), del(), rename() and copy()
\* is one of at most four per attempt, and one, and what the server and others do
\* adds none. That it makes these steps is what OperationReturns assumes fairness for.
THEOREM OperationIsBounded ==
    Spec => /\ [](Left \in 0 .. 4 * MaxRetries + 1 /\ (Left = 0 <=> pc = "done"))
            /\ [][Left' < Left \/ (Left' = Left /\ (Serve \/ Meddle))]_vars
<1>1. IInv => Left \in 0 .. 4 * MaxRetries + 1 /\ (Left = 0 <=> pc = "done")
  BY LeftType DEF IInv
<1>2. IInv /\ [Next]_vars => [Left' < Left \/ (Left' = Left /\ (Serve \/ Meddle))]_vars
  <2> SUFFICES ASSUME IInv, Next PROVE Left' < Left \/ (Left' = Left /\ (Serve \/ Meddle))
    OBVIOUS
  <2>1. CASE Begin \/ Post \/ Receive \/ Lose
    BY <2>1, WorkerIsNearer
  <2>2. CASE Serve \/ Meddle
    <3>1. UNCHANGED <<pc, op, attempt>>
      BY <2>2 DEF Serve, Meddle, loopVars
    <3>2. Left' = Left
      BY <3>1 DEF Left
    <3> QED BY <2>2, <3>2
  <2> QED BY <2>1, <2>2 DEF Next
<1> QED BY <1>1, <1>2, Invariance, PTL DEF Spec
==============================================================================
