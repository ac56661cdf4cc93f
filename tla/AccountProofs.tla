---------------------------- MODULE AccountProofs ----------------------------
(***************************************************************************)
(* What Account promises, for any number of workers and setup widgets, of   *)
(* accounts and keys, however deeply the calls of a widget nest, however     *)
(* the steps interleave and wherever a process is killed.                   *)
(*                                                                         *)
(* The first invariant, IInv, is about each process by itself: what its      *)
(* calls are (Stack) and what it holds where it relies on holding it        *)
(* (Holds). Nothing another process does touches these, so that one lemma,   *)
(* OwnStep, carries every action. The second, LinkInv, is about the link in  *)
(* the stores and comes further below.                                      *)
(***************************************************************************)
EXTENDS Account, SequenceTheorems, TLAPS

\* What a DropboxAccount object may hold, and where a process may be.
Account_ == [key: Keys, email: Emails, refresh: Tokens, access: Tokens]

States == {"off", "idle", "loaded"} \cup Loading \cup Calling \cup Saving \cup Forgetting

\* A process goes on with the innermost call.
Busy == Calling \cup Saving

\* The calls that wait in a process. Only the innermost is undisturbed, and not while
\* another handler is at work; whatever was posted for a code or with a token names
\* it until the answer is there.
Stack(p, at, cs) ==
    /\ cs \in Seq(Frames)
    /\ p \in Workers => Len(cs) <= 1
    /\ p \in Setups => Len(cs) <= MaxDepth
    /\ at \in Busy => cs # <<>>
    /\ at = "off" => cs = <<>>
    /\ \A i \in 1..Len(cs) :
          /\ cs[i].code # None => p \in Setups /\ i = Len(cs) /\ at \in {"idle"} \cup Busy
          /\ p \in Setups /\ cs[i].at # "refresh" /\ (i < Len(cs) \/ at \notin Busy)
                => cs[i].token # None

\* A call that nobody disturbed finds the account as it left it: with the key of
\* its code and, once the code is redeemed, with the tokens for it, and with the
\* email of its owner when it saves, if with any.
Fits(at, a, f) ==
    f.code # None =>
        IF at = "idle" /\ f.at = "redeem"
        THEN f.token = f.code /\ f.code.key = a.key
        ELSE /\ a.refresh = f.code /\ a.key = f.code.key /\ a.access \in {None, f.code}
             /\ at = "idle" => f.token = f.code \/ (f.at = "refresh" /\ f.token = None)
             /\ at \in Saving => a.email \in {None, f.code.acct}

\* A worker asks for, and stores, an access token for its own key, and only reads
\* the stores while it has no refresh token.
WorkerHolds(at, a, cs) ==
    /\ at \notin Saving \cup Forgetting
    /\ at \in {"config", "wallet", "file"} => a.refresh = None
    /\ at = "store" => a.access.key = a.key
    /\ at = "idle" /\ cs # <<>> /\ cs[Len(cs)].at = "refresh" /\ cs[Len(cs)].token # None
          => cs[Len(cs)].token.key = a.key

\* What a process holds at a point of its way.
Holds(p, at, a, cs) ==
    /\ at \in States /\ a \in Account_
    /\ at = "off" => a = Blank
    /\ at = "store" => a.access # None
    /\ cs # <<>> => Fits(at, a, cs[Len(cs)])
    /\ p \in Workers => WorkerHolds(at, a, cs)

\* The part of TypeOK that is not about the processes.
SharedTypes ==
    /\ enabled \in BOOLEAN
    /\ config \in [key: Keys, email: Emails]
    /\ wallet \in Tokens /\ file \in [token: Tokens] \cup {None}
    /\ cache \in [key: Keys, token: Grants] \cup {None}
    /\ page \in [Setups -> {"connect", "authorize", "linked"}]
    /\ redeemed \in 0..MaxLinks
    /\ link \in Links \cup {Torn}
    /\ intact \subseteq Processes

IInv ==
    /\ SharedTypes
    /\ pc \in [Processes -> States] /\ m \in [Processes -> Account_]
    /\ calls \in [Processes -> Seq(Frames)]
    /\ \A p \in Processes : Stack(p, pc[p], calls[p]) /\ Holds(p, pc[p], m[p], calls[p])

USE ProcessesAssumption, KeysAssumption, NoneAssumption, BoundsAssumption

-----------------------------------------------------------------------------
(* Stacks of calls. *)

\* The frames of a stack are frames.
LEMMA FramesOf ==
    ASSUME NEW cs \in Seq(Frames)
    PROVE  /\ Len(cs) \in Nat /\ DOMAIN cs = 1..Len(cs)
           /\ \A i \in 1..Len(cs) : cs[i] \in Frames
           /\ cs # <<>> <=> Len(cs) > 0
BY LenProperties, ElementOfSeq, EmptySeq

\* Frames whose history is dropped.
LEMMA DisturbedFrames ==
    ASSUME NEW cs \in Seq(Frames)
    PROVE  /\ Disturbed(cs) \in Seq(Frames) /\ Len(Disturbed(cs)) = Len(cs)
           /\ \A i \in 1..Len(cs) :
                 /\ Disturbed(cs)[i].code = None
                 /\ Disturbed(cs)[i].at = cs[i].at /\ Disturbed(cs)[i].token = cs[i].token
<1>1. \A f \in Frames :
        /\ [f EXCEPT !.code = None] \in Frames /\ [f EXCEPT !.code = None].code = None
        /\ [f EXCEPT !.code = None].at = f.at /\ [f EXCEPT !.code = None].token = f.token
  BY DEF Frames, Tokens
<1>2. \A i \in 1..Len(cs) :
        Disturbed(cs)[i] = [cs[i] EXCEPT !.code = None] /\ cs[i] \in Frames
  BY FramesOf DEF Disturbed
<1>3. Disturbed(cs) \in [1..Len(cs) -> Frames] /\ Len(cs) \in Nat
  BY <1>1, <1>2, FramesOf, Zenon DEF Disturbed
<1>4. Disturbed(cs) \in Seq(Frames) /\ Len(Disturbed(cs)) = Len(cs)
  <2> DEFINE d == Disturbed(cs)
             n == Len(cs)
  <2>1. d \in [1..n -> Frames] /\ n \in Nat
    BY <1>3
  <2> HIDE DEF d, n
  <2>2. d \in Seq(Frames) /\ Len(d) = n
    BY <2>1
  <2> QED BY <2>2, Zenon DEF d, n
<1>5. ASSUME NEW i \in 1..Len(cs)
      PROVE  /\ Disturbed(cs)[i].code = None
             /\ Disturbed(cs)[i].at = cs[i].at /\ Disturbed(cs)[i].token = cs[i].token
  <2> DEFINE f == cs[i]
             g == [f EXCEPT !.code = None]
  <2>1. f \in Frames /\ Disturbed(cs)[i] = g
    BY <1>2, Zenon
  <2>2. g.code = None /\ g.at = f.at /\ g.token = f.token
    BY <1>1, <2>1, Zenon
  <2> HIDE DEF g
  <2> QED BY <2>1, <2>2
<1> QED BY <1>4, <1>5, Zenon

\* The calls a call was made from.
LEMMA OuterFrames ==
    ASSUME NEW cs \in Seq(Frames), cs # <<>>
    PROVE  LET o == SubSeq(cs, 1, Len(cs) - 1) IN
           /\ o \in Seq(Frames) /\ Len(o) = Len(cs) - 1
           /\ \A i \in 1..Len(o) : o[i] = cs[i]
<1> DEFINE n == Len(cs) - 1
<1>1. n \in Int /\ n >= 0 /\ Len(cs) = n + 1
  BY FramesOf
<1>2. \A i \in 1..n : cs[i] \in Frames
  BY <1>1, FramesOf
<1> HIDE DEF n
<1>3. /\ SubSeq(cs, 1, n) \in Seq(Frames)
      /\ Len(SubSeq(cs, 1, n)) = IF 1 <= n THEN n - 1 + 1 ELSE 0
      /\ \A i \in 1 .. n - 1 + 1 : SubSeq(cs, 1, n)[i] = cs[1 + i - 1]
  BY <1>1, <1>2, SubSeqProperties
<1>4. Len(SubSeq(cs, 1, n)) = n /\ \A i \in 1..n : SubSeq(cs, 1, n)[i] = cs[i]
  BY <1>1, <1>3
<1> QED BY <1>3, <1>4 DEF n

\* A process moves on with the same calls.
LEMMA StackMove ==
    ASSUME NEW p \in Processes, NEW at, NEW where, NEW cs, Stack(p, at, cs),
           where # "off", at \in Busy => where \in Busy,
           where \in Busy => cs # <<>>,
           at \in {"idle"} \cup Busy => where \in {"idle"} \cup Busy
    PROVE  Stack(p, where, cs)
BY DEF Stack

\* The innermost call returns to the loop it was made from, disturbed or not.
LEMMA StackReturn ==
    ASSUME NEW p \in Processes, NEW at, NEW cs, Stack(p, at, cs), cs # <<>>
    PROVE  LET o == SubSeq(cs, 1, Len(cs) - 1) IN
           Stack(p, "idle", o) /\ \A i \in 1..Len(o) : o[i].code = None
<1> DEFINE o == SubSeq(cs, 1, Len(cs) - 1)
<1>1. /\ Len(cs) \in Nat /\ Len(cs) > 0
      /\ o \in Seq(Frames) /\ Len(o) = Len(cs) - 1 /\ \A i \in 1..Len(o) : o[i] = cs[i]
  BY FramesOf, OuterFrames DEF Stack
<1> HIDE DEF o
<1>2. \A i \in 1..Len(o) :
        /\ o[i].code = None
        /\ p \in Setups /\ o[i].at # "refresh" => o[i].token # None
  BY <1>1 DEF Stack
<1>3. "idle" \notin Busy
  BY DEF Busy, Calling, Saving
<1>4. Stack(p, "idle", o)
  BY <1>1, <1>2, <1>3 DEF Stack
<1> QED BY <1>2, <1>4 DEF o

\* Another handler of a widget runs in a loop, nested or not.
LEMMA StackDisturb ==
    ASSUME NEW p \in Processes, NEW where, NEW cs, Stack(p, "idle", cs),
           where \notin Busy \cup {"off"}
    PROVE  /\ Stack(p, where, Disturbed(cs))
           /\ \A i \in 1..Len(Disturbed(cs)) : Disturbed(cs)[i].code = None
<1>1. /\ Disturbed(cs) \in Seq(Frames) /\ Len(Disturbed(cs)) = Len(cs)
      /\ \A i \in 1..Len(cs) :
            /\ Disturbed(cs)[i].code = None
            /\ Disturbed(cs)[i].at = cs[i].at /\ Disturbed(cs)[i].token = cs[i].token
  BY DisturbedFrames DEF Stack
<1>2. "idle" \notin Busy
  BY DEF Busy, Calling, Saving
<1>3. Stack(p, where, Disturbed(cs))
  BY <1>1, <1>2 DEF Stack
<1> QED BY <1>1, <1>3

\* The innermost call goes on, with a frame for the same code.
LEMMA StackSwap ==
    ASSUME NEW p \in Processes, NEW at, NEW where, NEW cs, NEW f \in Frames,
           Stack(p, at, cs), cs # <<>>, at \in {"idle"} \cup Busy,
           f.code = cs[Len(cs)].code, where \in {"idle"} \cup Busy,
           where = "idle" /\ f.at # "refresh" => f.token # None
    PROVE  LET r == [cs EXCEPT ![Len(cs)] = f] IN
           Stack(p, where, r) /\ r # <<>> /\ r[Len(r)] = f
<1> DEFINE r == [cs EXCEPT ![Len(cs)] = f]
<1>1. /\ cs \in [1..Len(cs) -> Frames] /\ Len(cs) \in Nat /\ Len(cs) > 0
  BY FramesOf DEF Stack
<1>2. /\ r \in [1..Len(cs) -> Frames] /\ r[Len(cs)] = f
      /\ \A i \in 1..Len(cs) : i # Len(cs) => r[i] = cs[i]
  BY <1>1
<1> HIDE DEF r
<1>3. r \in Seq(Frames) /\ Len(r) = Len(cs)
  BY <1>1, <1>2
<1>4. r # <<>> /\ r[Len(r)] = f
  BY <1>1, <1>2, <1>3, FramesOf
<1>5. where # "off" /\ "idle" \notin Busy
  BY DEF Busy, Calling, Saving
<1>6. ASSUME NEW i \in 1..Len(r)
      PROVE  /\ r[i].code # None => p \in Setups /\ i = Len(r)
             /\ p \in Setups /\ r[i].at # "refresh" /\ (i < Len(r) \/ where \notin Busy)
                   => r[i].token # None
  <2>0. i \in 1..Len(cs) /\ Len(cs) \in 1..Len(cs)
    BY <1>1, <1>3
  <2>1. CASE i = Len(cs)
    <3>1. r[i] = f /\ i = Len(r)
      BY <1>2, <1>3, <2>1
    <3>2. f.code # None => p \in Setups
      BY <2>0 DEF Stack
    <3>3. where \notin Busy => where = "idle"
      OBVIOUS
    <3> QED BY <1>1, <1>3, <3>1, <3>2, <3>3
  <2>2. CASE i # Len(cs)
    <3>1. r[i] = cs[i] /\ i < Len(cs)
      BY <1>1, <1>2, <2>0, <2>2
    <3>2. /\ cs[i].code = None
          /\ p \in Setups /\ cs[i].at # "refresh" => cs[i].token # None
      BY <2>0, <2>2, <3>1 DEF Stack
    <3> QED BY <3>1, <3>2
  <2> QED BY <2>1, <2>2
<1>7. Stack(p, where, r)
  BY <1>3, <1>4, <1>5, <1>6 DEF Stack
<1> QED BY <1>4, <1>7 DEF r

\* A call is made, from a loop that may be that of another.
LEMMA StackCall ==
    ASSUME NEW p \in Processes, NEW where, NEW cs, NEW f \in Frames,
           Stack(p, "idle", cs), where # "off",
           p \in Workers => cs = <<>>, p \in Setups => Len(cs) < MaxDepth,
           f.code # None => p \in Setups /\ where \in {"idle"} \cup Busy,
           p \in Setups => f.token # None
    PROVE  LET r == Append(Disturbed(cs), f) IN
           Stack(p, where, r) /\ r # <<>> /\ r[Len(r)] = f
<1> DEFINE d == Disturbed(cs)
           r == Append(d, f)
<1>1. /\ d \in Seq(Frames) /\ Len(d) = Len(cs) /\ Len(cs) \in Nat
      /\ \A i \in 1..Len(cs) :
            d[i].code = None /\ d[i].at = cs[i].at /\ d[i].token = cs[i].token
  BY DisturbedFrames, FramesOf DEF Stack
<1> HIDE DEF d
<1>2. /\ r \in Seq(Frames) /\ Len(r) = Len(cs) + 1 /\ r[Len(cs) + 1] = f
      /\ \A i \in 1..Len(cs) : r[i] = d[i]
  BY <1>1, AppendProperties
<1> HIDE DEF r
<1>3. "idle" \notin Busy
  BY DEF Busy, Calling, Saving
<1>4. r # <<>> /\ r[Len(r)] = f
  BY <1>1, <1>2, FramesOf
<1>5. p \in Workers => Len(r) <= 1
  BY <1>1, <1>2, FramesOf, EmptySeq
<1>6. ASSUME NEW i \in 1..Len(r)
      PROVE  /\ r[i].code # None => p \in Setups /\ i = Len(r) /\ where \in {"idle"} \cup Busy
             /\ p \in Setups /\ r[i].at # "refresh" /\ (i < Len(r) \/ where \notin Busy)
                   => r[i].token # None
  <2>1. CASE i = Len(cs) + 1
    BY <1>1, <1>2, <2>1
  <2>2. CASE i # Len(cs) + 1
    <3>1. i \in 1..Len(cs)
      BY <1>1, <1>2, <2>2
    <3> QED BY <1>1, <1>2, <1>3, <3>1 DEF Stack
  <2> QED BY <2>1, <2>2
<1>7. p \in Setups => Len(r) <= MaxDepth
  BY <1>1, <1>2
<1>8. Stack(p, where, r)
  BY <1>2, <1>4, <1>5, <1>6, <1>7 DEF Stack
<1> QED BY <1>4, <1>8 DEF r, d

-----------------------------------------------------------------------------
(* What carries the actions. *)

\* A step of one process that leaves it with what it relies on keeps the invariant:
\* what the others rely on is their own.
LEMMA OwnStep ==
    ASSUME IInv, NEW p \in Processes, NEW where, NEW account, NEW stack, SharedTypes',
           Goto(p, where), Hold(p, account), calls' = [calls EXCEPT ![p] = stack],
           Stack(p, where, stack), Holds(p, where, account, stack)
    PROVE  IInv'
<1>1. where \in States /\ account \in Account_ /\ stack \in Seq(Frames)
  BY DEF Stack, Holds
<1>2. /\ pc' \in [Processes -> States] /\ m' \in [Processes -> Account_]
      /\ calls' \in [Processes -> Seq(Frames)]
  BY <1>1 DEF IInv, Goto, Hold
<1>3. \A q \in Processes :
        /\ pc'[q] = IF q = p THEN where ELSE pc[q]
        /\ m'[q] = IF q = p THEN account ELSE m[q]
        /\ calls'[q] = IF q = p THEN stack ELSE calls[q]
  BY DEF IInv, Goto, Hold
<1>4. \A q \in Processes : Stack(q, pc'[q], calls'[q]) /\ Holds(q, pc'[q], m'[q], calls'[q])
  BY <1>3 DEF IInv
<1> QED BY <1>2, <1>4 DEF IInv

\* What the invariant says of one process.
LEMMA Apart ==
    ASSUME IInv, NEW p \in Processes
    PROVE  /\ SharedTypes /\ m[p] \in Account_ /\ pc[p] \in States
           /\ Stack(p, pc[p], calls[p]) /\ calls[p] \in Seq(Frames)
           /\ Holds(p, pc[p], m[p], calls[p])
BY DEF IInv

\* A step that leaves a part of the processes alone is one that rewrites any of them.
LEMMA Same ==
    ASSUME IInv, NEW p \in Processes
    PROVE  /\ UNCHANGED m => Hold(p, m[p])
           /\ UNCHANGED pc => Goto(p, pc[p])
           /\ UNCHANGED calls => calls' = [calls EXCEPT ![p] = calls[p]]
BY DEF IInv, Hold, Goto

\* The fields of an account may be set to values of their types.
LEMMA Fields ==
    ASSUME NEW a \in Account_
    PROVE  /\ a.key \in Keys /\ a.email \in Emails
           /\ a.refresh \in Tokens /\ a.access \in Tokens
           /\ \A k \in Keys, e \in Emails : [a EXCEPT !.key = k, !.email = e] \in Account_
           /\ \A k \in Keys : [a EXCEPT !.key = k] \in Account_
           /\ \A e \in Emails : [a EXCEPT !.email = e] \in Account_
           /\ \A g \in Tokens :
                 /\ [a EXCEPT !.refresh = g] \in Account_
                 /\ [a EXCEPT !.access = g] \in Account_
                 /\ [a EXCEPT !.refresh = g, !.access = g] \in Account_
           /\ Blank \in Account_ /\ Blank.refresh = None /\ None \in Tokens
BY DEF Account_, Blank, Emails, Tokens

\* Of a token that is one, the account and the key.
LEMMA GrantParts ==
    ASSUME NEW g \in Tokens, g # None
    PROVE  g \in Grants /\ g.acct \in Emails /\ g.acct # None /\ g.key \in Keys
BY DEF Tokens, Grants, Emails

\* The frame of the innermost call.
LEMMA InnermostFrame ==
    ASSUME IInv, NEW p \in Processes, calls[p] # <<>>
    PROVE  /\ Innermost(p) \in Frames /\ Innermost(p) = calls[p][Len(calls[p])]
           /\ Innermost(p).token \in Tokens
           /\ Len(calls[p]) \in 1..Len(calls[p])
           /\ Fits(pc[p], m[p], Innermost(p))
<1>1. calls[p] \in Seq(Frames) /\ Holds(p, pc[p], m[p], calls[p])
  BY Apart
<1>2. Len(calls[p]) \in 1..Len(calls[p])
  BY <1>1, FramesOf
<1> QED BY <1>1, <1>2, FramesOf DEF Innermost, Holds, Frames

\* What a process with no undisturbed call has to hold.
LEMMA NoCode ==
    ASSUME NEW p \in Processes, NEW at \in States, NEW a \in Account_, NEW cs,
           cs # <<>> => cs[Len(cs)].code = None, at \notin {"off", "store"},
           p \in Workers => WorkerHolds(at, a, cs)
    PROVE  Holds(p, at, a, cs)
BY DEF Holds, Fits

\* A call returns; the one it was made from has been disturbed.
LEMMA ReturnStep ==
    ASSUME IInv, NEW p \in Processes, calls[p] # <<>>, Return(p), SharedTypes',
           NEW a \in Account_, Hold(p, a)
    PROVE  IInv'
<1> DEFINE o == Outer(p)
<1>1. /\ Stack(p, pc[p], calls[p]) /\ calls[p] \in Seq(Frames)
  BY Apart
<1>2. Stack(p, "idle", o) /\ \A i \in 1..Len(o) : o[i].code = None
  BY <1>1, StackReturn DEF Outer
<1>3. calls' = [calls EXCEPT ![p] = o] /\ Goto(p, "idle") /\ "idle" \in States
  BY DEF Return, States
<1>4. Len(o) = Len(calls[p]) - 1 /\ Len(calls[p]) \in Nat
  BY <1>1, OuterFrames, FramesOf DEF Outer
<1> HIDE DEF o
<1>5. o # <<>> => o[Len(o)].code = None
  <2>1. o \in Seq(Frames)
    BY <1>2 DEF Stack
  <2> QED BY <1>2, <2>1, FramesOf
<1>6. p \in Workers => o = <<>>
  <2>1. o \in Seq(Frames) /\ (p \in Workers => Len(calls[p]) <= 1)
    BY <1>1, <1>2 DEF Stack
  <2> QED BY <1>4, <2>1, FramesOf
<1>7. p \in Workers => WorkerHolds("idle", a, o)
  BY <1>6 DEF WorkerHolds, Saving, Forgetting
<1>8. Holds(p, "idle", a, o)
  BY <1>3, <1>5, <1>7, NoCode
<1> QED BY <1>2, <1>3, <1>8, OwnStep

\* A handler of a widget runs, nested or not.
LEMMA DisturbStep ==
    ASSUME IInv, NEW s \in Setups, pc[s] = "idle", Disturb(s), SharedTypes',
           NEW where \in {"config", "idle", "forgetConfig"}, Goto(s, where),
           NEW a \in Account_, Hold(s, a)
    PROVE  IInv'
<1> DEFINE d == Disturbed(calls[s])
<1>1. s \in Processes /\ s \notin Workers
  BY DEF Processes
<1>2. where \in States /\ where \notin Busy \cup {"off", "store"}
  BY DEF States, Busy, Loading, Calling, Saving, Forgetting
<1>3. Stack(s, where, d) /\ \A i \in 1..Len(d) : d[i].code = None
  BY <1>1, <1>2, Apart, StackDisturb
<1>4. calls' = [calls EXCEPT ![s] = d]
  BY DEF Disturb
<1> HIDE DEF d
<1>5. d # <<>> => d[Len(d)].code = None
  <2>1. d \in Seq(Frames)
    BY <1>3 DEF Stack
  <2> QED BY <1>3, <2>1, FramesOf
<1>6. Holds(s, where, a, d)
  BY <1>1, <1>2, <1>5, NoCode
<1> QED BY <1>1, <1>3, <1>4, <1>6, OwnStep

\* A process moves on while its calls, if any, have been disturbed.
LEMMA MoveStep ==
    ASSUME IInv, NEW p \in Processes, pc[p] \notin {"idle"} \cup Busy,
           UNCHANGED calls, SharedTypes',
           NEW where \in States, where \notin Busy \cup {"off"}, Goto(p, where),
           NEW a \in Account_, Hold(p, a),
           p \in Workers => WorkerHolds(where, a, calls[p])
    PROVE  IInv'
<1>1. Stack(p, pc[p], calls[p]) /\ calls[p] \in Seq(Frames)
  BY Apart
<1>2. Stack(p, where, calls[p])
  BY <1>1, StackMove
<1>3. calls[p] # <<>> => calls[p][Len(calls[p])].code = None
  BY <1>1, FramesOf DEF Stack
<1>4. where \notin {"off", "store"}
  BY DEF Busy, Calling
<1>5. Holds(p, where, a, calls[p])
  BY <1>3, <1>4, NoCode
<1> QED BY <1>2, <1>5, Same, OwnStep

\* The innermost call posts another request.
LEMMA AwaitStep ==
    ASSUME IInv, NEW p \in Processes, calls[p] # <<>>, pc[p] \in Busy, SharedTypes',
           NEW at \in {"refresh", "call"}, NEW token \in Tokens, Await(p, at, token),
           UNCHANGED m, at = "call" => token # None,
           p \in Workers /\ at = "refresh" /\ token # None => token.key = m[p].key,
           Innermost(p).code # None =>
               token = Innermost(p).code \/ (at = "refresh" /\ token = None)
    PROVE  IInv'
<1> DEFINE f == [at |-> at, token |-> token, code |-> Innermost(p).code]
           r == [calls[p] EXCEPT ![Len(calls[p])] = f]
<1>1. /\ Stack(p, pc[p], calls[p]) /\ Holds(p, pc[p], m[p], calls[p])
      /\ m[p] \in Account_ /\ Innermost(p) \in Frames
      /\ Fits(pc[p], m[p], Innermost(p)) /\ Innermost(p) = calls[p][Len(calls[p])]
  BY Apart, InnermostFrame
<1>2. f \in Frames
  BY <1>1 DEF Frames
<1>3. Stack(p, "idle", r) /\ r # <<>> /\ r[Len(r)] = f
  BY <1>1, <1>2, StackSwap
<1>4. calls' = [calls EXCEPT ![p] = r] /\ Goto(p, "idle") /\ Hold(p, m[p])
  BY Same DEF Await
<1> HIDE DEF r
<1>5. pc[p] # "idle" /\ "idle" \notin Saving
  BY DEF Busy, Calling, Saving
<1>6. Fits("idle", m[p], f)
  BY <1>1, <1>5 DEF Fits
<1>7. p \in Workers => WorkerHolds("idle", m[p], r)
  BY <1>3, <1>5 DEF WorkerHolds, Forgetting
<1>8. Holds(p, "idle", m[p], r)
  BY <1>1, <1>3, <1>6, <1>7 DEF Holds, States
<1> QED BY <1>3, <1>4, <1>8, OwnStep

\* The innermost call has an answer and goes on.
LEMMA AnsweredStep ==
    ASSUME IInv, NEW p \in Processes, calls[p] # <<>>, pc[p] = "idle", SharedTypes',
           NEW where \in {"authorize", "store", "saveConfig"}, Answered(p, where),
           NEW a \in Account_, Hold(p, a),
           where = "store" => a.access # None,
           p \in Workers => where # "saveConfig" /\ (where = "store" => a.access.key = a.key),
           Innermost(p).code # None => Fits(where, a, Innermost(p))
    PROVE  IInv'
<1> DEFINE f == [Innermost(p) EXCEPT !.token = None]
           r == [calls[p] EXCEPT ![Len(calls[p])] = f]
<1>1. /\ Stack(p, pc[p], calls[p]) /\ Innermost(p) \in Frames
      /\ Innermost(p) = calls[p][Len(calls[p])]
  BY Apart, InnermostFrame
<1>2. f \in Frames /\ f.code = Innermost(p).code /\ f.at = Innermost(p).at
  BY <1>1, Fields DEF Frames, Tokens
<1>3. where \in States /\ where \in Busy /\ where # "idle" /\ where # "off"
  BY DEF States, Busy, Calling, Saving
<1>5. calls' = [calls EXCEPT ![p] = r] /\ Goto(p, where)
  BY <1>1 DEF Answered
<1> HIDE DEF f
<1>4. Stack(p, where, r) /\ r # <<>> /\ r[Len(r)] = f
  <2>1. pc[p] \in {"idle"} \cup Busy /\ where \in {"idle"} \cup Busy
    BY <1>3
  <2> QED BY <1>1, <1>2, <1>3, <2>1, StackSwap
<1> HIDE DEF r
<1>6. Fits(where, a, f)
  BY <1>2, <1>3 DEF Fits
<1>7. p \in Workers => WorkerHolds(where, a, r)
  BY <1>3 DEF WorkerHolds, Saving, Forgetting
<1>8. Holds(p, where, a, r)
  BY <1>3, <1>4, <1>6, <1>7 DEF Holds
<1> QED BY <1>4, <1>5, <1>8, OwnStep

-----------------------------------------------------------------------------
(* The actions. *)

\* A setup widget is a process, and no worker.
LEMMA Widget ==
    ASSUME NEW s \in Setups
    PROVE  s \in Processes /\ s \notin Workers
BY DEF Processes

\* What load() reads makes an account.
LEMMA Read ==
    ASSUME IInv, NEW p \in Processes
    PROVE  /\ ReadConfig(p) \in Account_ /\ ReadConfig(p).refresh = m[p].refresh
           /\ [m[p] EXCEPT !.refresh = wallet] \in Account_
           /\ file # None => [m[p] EXCEPT !.refresh = file.token] \in Account_
           /\ cache # None => [m[p] EXCEPT !.access = cache.token] \in Account_
<1>1. SharedTypes /\ m[p] \in Account_
  BY Apart
<1>2. config.key \in Keys /\ config.email \in Emails
  BY <1>1 DEF SharedTypes
<1>3. ReadConfig(p) \in Account_ /\ ReadConfig(p).refresh = m[p].refresh
  BY <1>1, <1>2, Fields DEF ReadConfig, Account_
<1>4. ASSUME file # None PROVE [m[p] EXCEPT !.refresh = file.token] \in Account_
  <2>1. file.token \in Tokens
    BY <1>1, <1>4 DEF SharedTypes
  <2> QED BY <1>1, <2>1, Fields
<1>5. ASSUME cache # None PROVE [m[p] EXCEPT !.access = cache.token] \in Account_
  <2>1. cache.token \in Tokens
    BY <1>1, <1>5 DEF SharedTypes, Tokens
  <2> QED BY <1>1, <2>1, Fields
<1> QED BY <1>1, <1>3, <1>4, <1>5, Fields DEF SharedTypes

\* A process that starts holds nothing, and one that has ended has no calls.
LEMMA StartExitStep ==
    ASSUME IInv, NEW p \in Processes, Start(p) \/ Exit(p)
    PROVE  IInv'
<1>0. SharedTypes /\ m[p] \in Account_ /\ Holds(p, pc[p], m[p], calls[p])
  BY Apart
<1>1. CASE Start(p)
  <2>1. SharedTypes'
    BY <1>0, <1>1 DEF Start, SharedTypes, stores, history
  <2>2. /\ Goto(p, "config") /\ Hold(p, m[p]) /\ UNCHANGED calls
        /\ pc[p] \notin {"idle"} \cup Busy
        /\ "config" \in States /\ "config" \notin Busy \cup {"off"}
    BY <1>1, Same DEF Start, States, Busy, Loading, Calling, Saving
  <2>3. m[p].refresh = None
    BY <1>0, <1>1, Fields DEF Start, Holds
  <2>4. WorkerHolds("config", m[p], calls[p])
    BY <2>3 DEF WorkerHolds, Saving, Forgetting
  <2> QED BY <1>0, <2>1, <2>2, <2>4, MoveStep
<1>2. CASE Exit(p)
  <2>1. SharedTypes'
    BY <1>0, <1>2 DEF Exit, SharedTypes, stores
  <2>2. Stack(p, "off", <<>>)
    <3>1. <<>> \in Seq(Frames) /\ Len(<<>>) = 0
      BY EmptySeq
    <3> QED BY <3>1 DEF Stack, Busy, Calling, Saving
  <2>3. Holds(p, "off", Blank, <<>>)
    BY <1>0, Fields DEF Holds, WorkerHolds, States, Saving, Forgetting
  <2> QED BY <1>2, <2>1, <2>2, <2>3, OwnStep DEF Exit
<1> QED BY <1>1, <1>2

\* The steps of load(), of any process.
LEMMA LoadStep ==
    ASSUME IInv, NEW p \in Processes, Load(p)
    PROVE  IInv'
<1>0. SharedTypes /\ m[p] \in Account_ /\ Holds(p, pc[p], m[p], calls[p])
  BY Apart
<1>00. /\ {"wallet", "file", "cache", "loaded"} \subseteq States
       /\ {"config", "wallet", "file", "cache", "loaded"}
             \cap ({"idle", "off"} \cup Busy \cup Forgetting) = {}
  BY DEF States, Loading, Busy, Calling, Saving, Forgetting
<1>000. /\ UNCHANGED calls
        /\ pc[p] \in {"config", "wallet", "file", "cache"} /\ pc[p] \notin {"idle"} \cup Busy
  BY <1>00 DEF Load, LoadConfig, LoadWallet, LoadFile, LoadCache
<1>1. ASSUME NEW where \in {"wallet", "file", "cache", "loaded"}, NEW a \in Account_,
             Goto(p, where), Hold(p, a), SharedTypes',
             p \in Workers /\ where \in {"wallet", "file"} => a.refresh = None
      PROVE  IInv'
  <2>1. where \notin Busy \cup {"off"} /\ where \in States
    BY <1>00
  <2>2. p \in Workers => WorkerHolds(where, a, calls[p])
    BY <1>00, <1>1 DEF WorkerHolds, Busy
  <2> QED BY <1>000, <1>1, <2>1, <2>2, MoveStep
<1>2. p \in Workers /\ pc[p] \in {"config", "wallet", "file"} => m[p].refresh = None
  BY <1>0 DEF Holds, WorkerHolds
<1>3. CASE LoadConfig(p)
  <2>1. SharedTypes'
    BY <1>0, <1>3 DEF LoadConfig, SharedTypes, stores
  <2> QED BY <1>1, <1>2, <1>3, <2>1, Read DEF LoadConfig
<1>4. CASE LoadWallet(p)
  <2>1. SharedTypes'
    BY <1>0, <1>4 DEF LoadWallet, SharedTypes, stores
  <2>2. CASE Goto(p, "cache") /\ Hold(p, [m[p] EXCEPT !.refresh = wallet])
    BY <1>1, <2>1, <2>2, Read
  <2>3. CASE Goto(p, "file") /\ UNCHANGED m
    <3>1. Hold(p, m[p]) /\ (p \in Workers => m[p].refresh = None)
      BY <1>2, <1>4, <2>3, Same DEF LoadWallet
    <3> QED BY <1>0, <1>1, <2>1, <2>3, <3>1
  <2> QED BY <1>4, <2>2, <2>3 DEF LoadWallet
<1>5. CASE LoadFile(p)
  <2>1. SharedTypes'
    BY <1>0, <1>5 DEF LoadFile, SharedTypes, stores, history
  <2> DEFINE a == IF file = None THEN m[p] ELSE [m[p] EXCEPT !.refresh = file.token]
  <2>2. a \in Account_
    BY <1>0, Read
  <2>3. Goto(p, "cache") /\ Hold(p, a)
    BY <1>5 DEF LoadFile
  <2> HIDE DEF a
  <2> QED BY <1>1, <2>1, <2>2, <2>3
<1>6. CASE LoadCache(p)
  <2>1. SharedTypes' /\ Goto(p, "loaded")
    BY <1>0, <1>6 DEF LoadCache, SharedTypes, stores, history
  <2>2. CASE UNCHANGED m
    BY <1>0, <1>1, <2>1, <2>2, Same
  <2>3. CASE cache # None /\ Hold(p, [m[p] EXCEPT !.access = cache.token])
    BY <1>1, <2>1, <2>3, Read
  <2> QED BY <1>6, <2>2, <2>3 DEF LoadCache
<1> QED BY <1>3, <1>4, <1>5, <1>6 DEF Load

\* The steps of a call that needs an access token.
LEMMA RequestStep ==
    ASSUME IInv, NEW p \in Processes, Request(p)
    PROVE  IInv'
<1>0. SharedTypes /\ m[p] \in Account_ /\ Holds(p, pc[p], m[p], calls[p])
      /\ Stack(p, pc[p], calls[p])
  BY Apart
<1>00. {"authorize", "store"} \subseteq Busy /\ "idle" \notin Saving
  BY DEF Busy, Calling, Saving
<1>000. calls[p] # <<>>
  BY <1>0, <1>00 DEF Request, Authorize, Refreshed, StoreCache, Rejected, Retried, Waiting,
     Stack
<1>1. /\ Innermost(p) \in Frames /\ Innermost(p) = calls[p][Len(calls[p])]
      /\ Innermost(p).token \in Tokens /\ Fits(pc[p], m[p], Innermost(p))
  BY <1>000, InnermostFrame
<1>2. CASE Authorize(p)
  <2>1. SharedTypes' /\ UNCHANGED m /\ pc[p] = "authorize" /\ Hold(p, m[p])
    BY <1>0, <1>2, Same DEF Authorize, SharedTypes, stores, history
  <2>2. Innermost(p).code # None =>
          /\ m[p].refresh = Innermost(p).code /\ m[p].key = Innermost(p).code.key
          /\ m[p].access \in {None, Innermost(p).code}
    BY <1>1, <2>1 DEF Fits
  <2>3. CASE m[p].access # None /\ Await(p, "call", m[p].access)
    <3>1. m[p].access \in Tokens
      BY <1>0, Fields
    <3> QED BY <1>00, <1>000, <2>1, <2>2, <2>3, <3>1, AwaitStep
  <2>4. CASE Configured(p) /\ Await(p, "refresh", Granted(p))
    <3>1. m[p].refresh \in Grants
      BY <1>0, <2>4, Fields, GrantParts DEF Configured
    <3>2. Granted(p) \in Tokens
      BY <3>1 DEF Granted, Tokens
    <3>3. Granted(p) # None => Granted(p).key = m[p].key
      BY DEF Granted
    <3>4. Innermost(p).code # None => Granted(p) = Innermost(p).code
      BY <2>2 DEF Granted
    <3> QED BY <1>00, <1>000, <2>1, <2>4, <3>2, <3>3, <3>4, AwaitStep
  <2>5. CASE Return(p)
    BY <1>0, <1>000, <2>1, <2>5, ReturnStep
  <2> QED BY <1>2, <2>3, <2>4, <2>5 DEF Authorize
<1>3. CASE Refreshed(p)
  <2>1. SharedTypes' /\ pc[p] = "idle" /\ Innermost(p).at = "refresh"
    BY <1>0, <1>3 DEF Refreshed, Waiting, SharedTypes, stores, history
  <2> DEFINE minted == [m[p] EXCEPT !.access = Innermost(p).token]
  <2>2. CASE /\ Innermost(p).token # None /\ Hold(p, minted) /\ Answered(p, "store")
    <3>1. minted \in Account_
      BY <1>0, <1>1, Fields
    <3>2. /\ minted.access = Innermost(p).token /\ minted.key = m[p].key
          /\ minted.refresh = m[p].refresh
      BY <1>0 DEF Account_
    <3>3. p \in Workers => minted.access.key = minted.key
      BY <1>0, <1>000, <1>1, <2>1, <2>2, <3>2 DEF Holds, WorkerHolds
    <3>4. Innermost(p).code # None => Fits("store", minted, Innermost(p))
      BY <1>1, <2>1, <2>2, <3>2 DEF Fits, Saving
    <3> HIDE DEF minted
    <3> QED BY <1>000, <2>1, <2>2, <3>1, <3>2, <3>3, <3>4, AnsweredStep
  <2>3. CASE Hold(p, [m[p] EXCEPT !.access = None]) /\ Return(p)
    BY <1>0, <1>000, <2>1, <2>3, Fields, ReturnStep
  <2>4. CASE UNCHANGED m /\ Return(p)
    BY <1>0, <1>000, <2>1, <2>4, Same, ReturnStep
  <2> QED BY <1>3, <2>2, <2>3, <2>4 DEF Refreshed
<1>4. CASE StoreCache(p)
  <2>1. pc[p] = "store" /\ UNCHANGED m /\ Await(p, "call", m[p].access)
    BY <1>4 DEF StoreCache
  <2>2. m[p].access # None /\ m[p].access \in Grants /\ m[p].access \in Tokens
        /\ m[p].key \in Keys
    BY <1>0, <2>1, Fields, GrantParts DEF Holds
  <2>3. SharedTypes'
    <3>1. CacheEntry(p) \in [key: Keys, token: Grants]
      BY <2>2 DEF CacheEntry
    <3> QED BY <1>0, <1>4, <3>1 DEF StoreCache, SharedTypes, history
  <2>4. Innermost(p).code # None => m[p].access = Innermost(p).code
    BY <1>1, <2>1, <2>2 DEF Fits
  <2> QED BY <1>00, <1>000, <2>1, <2>2, <2>3, <2>4, AwaitStep
<1>5. CASE Rejected(p)
  <2> DEFINE a == [m[p] EXCEPT !.access = None]
  <2>1. SharedTypes' /\ pc[p] = "idle" /\ Innermost(p).at = "call"
        /\ Answered(p, "authorize") /\ Hold(p, a)
    BY <1>0, <1>5 DEF Rejected, Waiting, SharedTypes, history
  <2>2. /\ a \in Account_ /\ a.access = None /\ a.key = m[p].key
        /\ a.refresh = m[p].refresh
    BY <1>0, Fields DEF Account_
  <2> HIDE DEF a
  <2>3. Innermost(p).code # None => Fits("authorize", a, Innermost(p))
    BY <1>1, <2>1, <2>2 DEF Fits, Saving
  <2> QED BY <1>000, <2>1, <2>2, <2>3, AnsweredStep
<1>6. CASE Retried(p)
  <2>1. SharedTypes' /\ pc[p] = "idle" /\ Innermost(p).at = "call"
        /\ Answered(p, "authorize") /\ Hold(p, m[p])
    BY <1>0, <1>6, Same DEF Retried, Waiting, SharedTypes, stores, history
  <2>2. Innermost(p).code # None => Fits("authorize", m[p], Innermost(p))
    BY <1>1, <2>1 DEF Fits, Saving
  <2> QED BY <1>0, <1>000, <2>1, <2>2, AnsweredStep
<1> QED BY <1>2, <1>3, <1>4, <1>5, <1>6 DEF Request


\* A worker's operation makes one call, which is over when it has an answer.
LEMMA WorkerStep ==
    ASSUME IInv, NEW w \in Workers, Operation(w) \/ WorkerLoaded(w) \/ WorkerReply(w)
    PROVE  IInv'
<1>0. w \in Processes /\ w \notin Setups
  BY DEF Processes
<1>1. /\ SharedTypes /\ m[w] \in Account_ /\ Stack(w, pc[w], calls[w])
      /\ calls[w] \in Seq(Frames)
  BY <1>0, Apart
<1>2. SharedTypes' /\ UNCHANGED m /\ Hold(w, m[w])
  BY <1>0, <1>1, Same DEF Operation, WorkerLoaded, WorkerReply, SharedTypes, stores, history
<1>3. /\ {"authorize", "config", "idle"} \subseteq States
      /\ {"authorize", "config", "idle"} \cap (Saving \cup Forgetting) = {}
      /\ "authorize" \in Busy /\ "loaded" \notin Busy /\ "idle" \notin Busy
  BY DEF States, Loading, Busy, Calling, Saving, Forgetting
<1>4. CASE Operation(w)
  <2> DEFINE f == [at |-> "call", token |-> None, code |-> None]
             where == IF Configured(w) THEN "authorize" ELSE "config"
             r == Append(Disturbed(calls[w]), f)
  <2>1. f \in Frames /\ f.code = None
    BY DEF Frames, Tokens
  <2>2. where \in {"authorize", "config"} /\ (where = "config" => m[w].refresh = None)
    BY DEF Configured
  <2>3. calls' = [calls EXCEPT ![w] = r] /\ Goto(w, where) /\ pc[w] = "idle" /\ calls[w] = <<>>
    BY <1>4 DEF Operation, Call
  <2> HIDE DEF f, where
  <2>4. Stack(w, where, r) /\ r # <<>> /\ r[Len(r)] = f
    BY <1>0, <1>1, <2>1, <2>2, <2>3, StackCall
  <2> HIDE DEF r
  <2>5. WorkerHolds(where, m[w], r)
    BY <1>3, <2>2 DEF WorkerHolds
  <2>6. Holds(w, where, m[w], r)
    BY <1>0, <1>1, <1>3, <2>1, <2>2, <2>4, <2>5, NoCode
  <2> QED BY <1>0, <1>2, <2>3, <2>4, <2>6, OwnStep
<1>5. CASE WorkerLoaded(w)
  <2>1. pc[w] = "loaded"
    BY <1>5 DEF WorkerLoaded
  <2>2. CASE calls[w] # <<>> /\ Goto(w, "authorize") /\ UNCHANGED calls
    <3>1. Stack(w, "authorize", calls[w])
      BY <1>0, <1>1, <1>3, <2>1, <2>2, StackMove
    <3>2. calls[w][Len(calls[w])].code = None
      BY <1>1, <1>3, <2>1, <2>2, FramesOf DEF Stack
    <3>3. Holds(w, "authorize", m[w], calls[w])
      BY <1>0, <1>1, <1>3, <3>2, NoCode DEF WorkerHolds
    <3> QED BY <1>0, <1>2, <2>2, <3>1, <3>3, Same, OwnStep
  <2>3. CASE Goto(w, "idle") /\ calls' = [calls EXCEPT ![w] = <<>>]
    <3>1. Stack(w, "idle", <<>>)
      <4>1. <<>> \in Seq(Frames) /\ Len(<<>>) = 0
        BY EmptySeq
      <4> QED BY <1>3, <4>1 DEF Stack
    <3>2. Holds(w, "idle", m[w], <<>>)
      BY <1>0, <1>1, <1>3, NoCode DEF WorkerHolds
    <3> QED BY <1>0, <1>2, <2>3, <3>1, <3>2, OwnStep
  <2> QED BY <1>5, <2>2, <2>3 DEF WorkerLoaded
<1>6. CASE WorkerReply(w)
  BY <1>0, <1>1, <1>2, <1>6, ReturnStep DEF WorkerReply, Waiting
<1> QED BY <1>4, <1>5, <1>6

\* The handlers of a widget, and the answers its calls get.
LEMMA SetupStep ==
    ASSUME IInv, NEW s \in Setups,
           \/ Refresh(s) \/ SetupLoaded(s) \/ OpenAuthorizationPage(s)
           \/ FinishAuthorization(s) \/ Redeemed(s) \/ AccountInfo(s)
    PROVE  IInv'
<1>0. s \in Processes /\ s \notin Workers
  BY Widget
<1>1. /\ SharedTypes /\ m[s] \in Account_ /\ Stack(s, pc[s], calls[s])
      /\ calls[s] \in Seq(Frames) /\ (UNCHANGED m => Hold(s, m[s]))
  BY <1>0, Apart, Same
<1>2. "idle" \in States /\ "idle" \notin Busy \cup Saving /\ "loaded" \notin {"idle"} \cup Busy
  BY DEF States, Busy, Calling, Saving
<1>3. CASE Refresh(s)
  <2>1. SharedTypes'
    BY <1>1, <1>3 DEF Refresh, SharedTypes, stores, history
  <2> QED BY <1>1, <1>3, <2>1, DisturbStep DEF Refresh
<1>4. CASE SetupLoaded(s)
  <2>1. SharedTypes'
    BY <1>1, <1>4 DEF SetupLoaded, SharedTypes, stores, Show
  <2>2. /\ pc[s] = "loaded" /\ Goto(s, "idle") /\ UNCHANGED <<calls, m>>
    BY <1>4 DEF SetupLoaded
  <2> QED BY <1>0, <1>1, <1>2, <2>1, <2>2, MoveStep
<1>5. CASE OpenAuthorizationPage(s)
  <2>1. PICK key \in Keys : Hold(s, [m[s] EXCEPT !.key = key])
    BY <1>5 DEF OpenAuthorizationPage
  <2>2. SharedTypes'
    BY <1>1, <1>5 DEF OpenAuthorizationPage, SharedTypes, stores, history, Show
  <2>3. [m[s] EXCEPT !.key = key] \in Account_
    BY <1>1, Fields
  <2>4. Goto(s, "idle") /\ pc[s] = "idle" /\ Disturb(s)
    BY <1>0, <1>5, Same DEF OpenAuthorizationPage
  <2> QED BY <2>1, <2>2, <2>3, <2>4, DisturbStep
<1>6. CASE FinishAuthorization(s)
  <2>1. PICK code \in Grants : code.key = m[s].key /\ Call(s, "redeem", code)
    BY <1>6 DEF FinishAuthorization
  <2> DEFINE f == [at |-> "redeem", token |-> code, code |-> code]
             r == Append(Disturbed(calls[s]), f)
  <2>2. f \in Frames /\ f.token # None /\ f.at = "redeem" /\ f.token = f.code /\ f.code = code
    BY DEF Frames, Tokens
  <2>3. /\ calls' = [calls EXCEPT ![s] = r] /\ Len(calls[s]) < MaxDepth
        /\ pc[s] = "idle" /\ Goto(s, "idle") /\ Hold(s, m[s])
    BY <1>0, <1>1, <1>6, <2>1, Same DEF FinishAuthorization, Call
  <2>4. SharedTypes'
    BY <1>1, <1>6 DEF FinishAuthorization, SharedTypes, stores, history
  <2> HIDE DEF f
  <2>5. Stack(s, "idle", r) /\ r # <<>> /\ r[Len(r)] = f
    BY <1>0, <1>1, <2>2, <2>3, StackCall
  <2> HIDE DEF r
  <2>6. Holds(s, "idle", m[s], r)
    BY <1>0, <1>1, <1>2, <2>1, <2>2, <2>5 DEF Holds, Fits
  <2> QED BY <1>0, <2>3, <2>4, <2>5, <2>6, OwnStep
<1>7. ASSUME NEW at, Waiting(s, at)
      PROVE  /\ calls[s] # <<>> /\ pc[s] = "idle" /\ Innermost(s) \in Frames
             /\ Innermost(s).at = at /\ Innermost(s).token \in Tokens
             /\ Fits("idle", m[s], Innermost(s))
             /\ at # "refresh" => Innermost(s).token # None
  <2>1. calls[s] # <<>> /\ pc[s] = "idle" /\ Innermost(s).at = at
    BY <1>7 DEF Waiting
  <2>2. /\ Innermost(s) \in Frames /\ Innermost(s).token \in Tokens
        /\ Innermost(s) = calls[s][Len(calls[s])] /\ Len(calls[s]) \in 1..Len(calls[s])
        /\ Fits("idle", m[s], Innermost(s))
    BY <1>0, <2>1, InnermostFrame
  <2>3. at # "refresh" => Innermost(s).token # None
    BY <1>1, <1>2, <2>1, <2>2 DEF Stack
  <2> QED BY <2>1, <2>2, <2>3
<1>8. CASE Redeemed(s)
  <2>1. Waiting(s, "redeem")
    BY <1>8 DEF Redeemed
  <2>2. SharedTypes'
    <3>1. redeemed' \in 0..MaxLinks
      BY <1>1, <1>8 DEF Redeemed, SharedTypes
    <3> QED BY <1>1, <1>8, <3>1 DEF Redeemed, SharedTypes, stores
  <2> DEFINE a == RedeemedGrant(s, Innermost(s).token)
  <2>3. CASE Hold(s, a) /\ Answered(s, "authorize")
    <3>1. a \in Account_
      BY <1>1, <1>7, <2>1, Fields DEF RedeemedGrant
    <3>2. a.refresh = Innermost(s).token /\ a.access = Innermost(s).token /\ a.key = m[s].key
      BY <1>1 DEF RedeemedGrant, Account_
    <3> HIDE DEF a
    <3>3. Innermost(s).code # None => Fits("authorize", a, Innermost(s))
      BY <1>7, <2>1, <3>2 DEF Fits, Saving
    <3> QED BY <1>0, <1>7, <2>1, <2>2, <2>3, <3>1, <3>3, AnsweredStep
  <2>4. CASE (UNCHANGED m \/ Hold(s, [m[s] EXCEPT !.refresh = None, !.access = None]))
             /\ Return(s)
    <3>1. [m[s] EXCEPT !.refresh = None, !.access = None] \in Account_
      BY <1>1, Fields DEF Account_, Tokens
    <3> QED BY <1>0, <1>1, <1>7, <2>1, <2>2, <2>4, <3>1, ReturnStep
  <2> QED BY <1>8, <2>3, <2>4 DEF Redeemed
<1>9. CASE AccountInfo(s)
  <2>1. Waiting(s, "call")
    BY <1>9 DEF AccountInfo
  <2>2. SharedTypes'
    BY <1>1, <1>9 DEF AccountInfo, SharedTypes, stores, history
  <2>3. ASSUME NEW email \in {Innermost(s).token.acct, None},
               Hold(s, [m[s] EXCEPT !.email = email]), Answered(s, "saveConfig")
        PROVE  IInv'
    <3> DEFINE a == [m[s] EXCEPT !.email = email]
    <3>1. email \in Emails
      BY <1>7, <2>1, GrantParts DEF Emails
    <3>2. a \in Account_
      BY <1>1, <3>1, Fields
    <3>3. /\ a.refresh = m[s].refresh /\ a.access = m[s].access /\ a.key = m[s].key
          /\ a.email = email
      BY <1>1, <3>1 DEF Account_
    <3>4. Hold(s, a)
      BY <2>3
    <3> HIDE DEF a
    <3>5. Innermost(s).code # None => Fits("saveConfig", a, Innermost(s))
      BY <1>7, <2>1, <3>3 DEF Fits
    <3> QED BY <1>0, <1>7, <2>1, <2>2, <2>3, <3>2, <3>4, <3>5, AnsweredStep
  <2>4. CASE UNCHANGED m /\ Return(s)
    BY <1>0, <1>1, <1>7, <2>1, <2>2, <2>4, ReturnStep
  <2> QED BY <1>9, <2>3, <2>4 DEF AccountInfo
<1> QED BY <1>3, <1>4, <1>5, <1>6, <1>8, <1>9

\* What a widget that is saving is to store is what it holds: with the code's own
\* grant if nobody disturbed its call.
LEMMA ToSaveIsHeld ==
    ASSUME IInv, NEW s \in Setups, pc[s] \in Saving
    PROVE  /\ calls[s] # <<>>
           /\ ToSave(s) = [key |-> m[s].key, email |-> m[s].email, token |-> m[s].refresh]
           /\ ToSave(s) \in Links
<1>1. /\ s \in Processes /\ m[s] \in Account_ /\ Stack(s, pc[s], calls[s])
      /\ pc[s] \in Busy /\ pc[s] # "idle"
  BY Widget, Apart DEF Busy, Saving
<1>2. calls[s] # <<>>
  BY <1>1 DEF Stack
<1>3. Fits(pc[s], m[s], Innermost(s)) /\ Innermost(s) \in Frames
  BY <1>1, <1>2, InnermostFrame
<1>4. Innermost(s).code # None =>
        /\ m[s].refresh = Innermost(s).code /\ m[s].key = Innermost(s).code.key
        /\ m[s].email \in {None, Innermost(s).code.acct}
        /\ Innermost(s).code.acct # None
  <2>1. Innermost(s).code \in Tokens
    BY <1>3 DEF Frames
  <2> QED BY <1>1, <1>3, <2>1, GrantParts DEF Fits
<1>5. ToSave(s) = [key |-> m[s].key, email |-> m[s].email, token |-> m[s].refresh]
  BY <1>4 DEF ToSave
<1>6. ToSave(s) \in Links
  <2> DEFINE k == m[s].key
             e == m[s].email
             t == m[s].refresh
  <2>1. k \in Keys /\ e \in Emails /\ t \in Tokens
    BY <1>1, Fields
  <2> HIDE DEF k, e, t
  <2>2. [key |-> k, email |-> e, token |-> t] \in Links
    BY <2>1 DEF Links
  <2> QED BY <1>5, <2>2 DEF k, e, t
<1> QED BY <1>2, <1>5, <1>6

\* The writes of save().
LEMMA SaveStep ==
    ASSUME IInv, NEW s \in Setups, Save(s)
    PROVE  IInv'
<1>0. s \in Processes /\ s \notin Workers
  BY Widget
<1>1. /\ pc[s] \in Saving /\ UNCHANGED m
      /\ pc[s] \in Busy /\ pc[s] # "idle"
  BY DEF Save, SaveConfig, SaveWallet, SaveClean, SaveFile, Saving, Busy
<1>2. /\ SharedTypes /\ m[s] \in Account_ /\ Stack(s, pc[s], calls[s]) /\ Hold(s, m[s])
      /\ Holds(s, pc[s], m[s], calls[s])
  BY <1>0, <1>1, Apart, Same
<1>3. calls[s] # <<>> /\ ToSave(s) \in Links
  BY <1>1, ToSaveIsHeld
<1>4. ASSUME NEW where \in {"saveWallet", "saveClean", "saveFile"},
             Goto(s, where), UNCHANGED calls, SharedTypes'
      PROVE  IInv'
  <2>1. where \in Saving /\ where \in Busy /\ where \in States /\ where \notin {"off", "idle", "store"}
    BY DEF Saving, Busy, States
  <2>2. Stack(s, where, calls[s])
    BY <1>0, <1>1, <1>2, <1>3, <2>1, StackMove
  <2>3. Holds(s, where, m[s], calls[s])
    BY <1>0, <1>1, <1>2, <2>1 DEF Holds, Fits
  <2> QED BY <1>0, <1>2, <1>4, <2>2, <2>3, Same, OwnStep
<1>5. ASSUME Return(s), SharedTypes' PROVE IInv'
  BY <1>0, <1>2, <1>3, <1>5, ReturnStep
<1>6. /\ [key |-> m[s].key, email |-> m[s].email] \in [key: Keys, email: Emails]
      /\ m[s].refresh \in Tokens
  BY <1>2, Fields
<1>7. intact \subseteq Processes /\ Show(s, "linked") =>
        page' \in [Setups -> {"connect", "authorize", "linked"}]
  BY <1>2 DEF SharedTypes, Show
<1>8. CASE SaveConfig(s)
  <2>1. SharedTypes'
    BY <1>0, <1>2, <1>6, <1>8 DEF SaveConfig, SharedTypes, FirstWrite
  <2> QED BY <1>4, <1>5, <1>8, <2>1 DEF SaveConfig
<1>9. CASE SaveWallet(s)
  <2>1. SharedTypes'
    BY <1>2, <1>6, <1>9 DEF SaveWallet, SharedTypes, LaterWrite
  <2> QED BY <1>4, <1>9, <2>1 DEF SaveWallet
<1>10. CASE SaveClean(s)
  <2>1. SharedTypes'
    BY <1>2, <1>3, <1>7, <1>10
       DEF SaveClean, Saved, SharedTypes, LastWrite, Leaves
  <2> QED BY <1>5, <1>10, <2>1 DEF SaveClean, Saved
<1>11. CASE SaveFile(s)
  <2>1. file' \in [token: Tokens] \cup {None} /\ link' \in Links \cup {Torn}
    <3>1. CASE Return(s) /\ link' = Torn /\ UNCHANGED <<file, page>>
      BY <1>2, <3>1 DEF SharedTypes
    <3>2. ASSUME NEW token \in {m[s].refresh, None}, file' = [token |-> token],
                 Leaves(s, IF token # m[s].refresh \/ (enabled /\ wallet # None)
                           THEN Torn ELSE ToSave(s))
          PROVE  file' \in [token: Tokens] \cup {None} /\ link' \in Links \cup {Torn}
      <4>1. token \in Tokens
        BY <1>6 DEF Tokens
      <4> QED BY <1>3, <3>2, <4>1 DEF Leaves
    <3> QED BY <1>11, <3>1, <3>2 DEF SaveFile
  <2>2. page' \in [Setups -> {"connect", "authorize", "linked"}]
    BY <1>2, <1>7, <1>11 DEF SaveFile, Saved, SharedTypes
  <2>3. SharedTypes'
    BY <1>2, <1>11, <2>1, <2>2 DEF SaveFile, SharedTypes, LastWrite
  <2> QED BY <1>5, <1>11, <2>3 DEF SaveFile, Saved
<1> QED BY <1>8, <1>9, <1>10, <1>11 DEF Save

\* unlink(), under whatever calls wait, and what it takes away.
LEMMA ForgetStep ==
    ASSUME IInv, NEW s \in Setups, Forget(s)
    PROVE  IInv'
<1>0. s \in Processes /\ s \notin Workers
  BY Widget
<1>1. SharedTypes /\ m[s] \in Account_ /\ (UNCHANGED m => Hold(s, m[s]))
  BY <1>0, Apart, Same
<1>2. /\ {"idle", "forgetFile", "forgetWallet"} \subseteq States
      /\ {"idle", "forgetConfig", "forgetFile", "forgetWallet"} \cap (Busy \cup {"off"}) = {}
  BY DEF States, Busy, Calling, Saving, Forgetting
<1>3. NoLink \in Links /\ [key |-> BuiltIn, email |-> None] \in [key: Keys, email: Emails]
  BY DEF NoLink, Links, Tokens, Emails
<1>4. CASE Unlink(s)
  <2>1. SharedTypes'
    BY <1>1, <1>4 DEF Unlink, SharedTypes, history
  <2> QED BY <1>1, <1>4, <2>1, Fields, DisturbStep DEF Unlink
<1>5. CASE ForgetConfig(s)
  <2>1. SharedTypes'
    BY <1>0, <1>1, <1>3, <1>5 DEF ForgetConfig, SharedTypes, FirstWrite
  <2> QED BY <1>0, <1>1, <1>2, <1>5, <2>1, MoveStep DEF ForgetConfig
<1>6. CASE ForgetFile(s)
  <2>1. SharedTypes'
    BY <1>1, <1>6 DEF ForgetFile, SharedTypes, LaterWrite
  <2> QED BY <1>0, <1>1, <1>2, <1>6, <2>1, MoveStep DEF ForgetFile
<1>7. CASE ForgetWallet(s)
  <2>1. wallet' \in Tokens
    BY <1>1, <1>7, Fields DEF ForgetWallet, SharedTypes, Tokens
  <2>2. SharedTypes'
    BY <1>1, <1>3, <1>7, <2>1 DEF ForgetWallet, SharedTypes, LastWrite, Leaves, Show
  <2> QED BY <1>0, <1>1, <1>2, <1>7, <2>2, MoveStep DEF ForgetWallet
<1> QED BY <1>4, <1>5, <1>6, <1>7 DEF Forget

\* Before anything has started.
LEMMA Initially == Init => IInv
<1> SUFFICES ASSUME Init PROVE IInv
  OBVIOUS
<1>1. link \in Links
  BY DEF Init, NoLink, Links, Grants, Tokens, Emails
<1>2. link.key \in Keys /\ link.email \in Emails /\ link.token \in Tokens
  BY <1>1 DEF Links
<1>3. SharedTypes
  <2> DEFINE t == link.token
  <2>1. [token |-> t] \in [token: Tokens] /\ None \in Tokens
    BY <1>2 DEF Tokens
  <2>2. wallet \in Tokens /\ file \in [token: Tokens] \cup {None}
    BY <1>2, <2>1 DEF Init
  <2>3. config \in [key: Keys, email: Emails]
    BY <1>2 DEF Init
  <2> QED BY <1>1, <2>2, <2>3 DEF Init, SharedTypes
<1>4. Blank \in Account_ /\ "off" \in States /\ <<>> \in Seq(Frames) /\ Len(<<>>) = 0
  BY EmptySeq DEF States, Blank, Account_, Emails, Tokens
<1>5. \A p \in Processes : Stack(p, "off", <<>>)
  BY <1>4 DEF Stack, Busy, Calling, Saving
<1>6. \A p \in Processes : Holds(p, "off", Blank, <<>>)
  BY <1>4 DEF Holds, WorkerHolds, Saving, Forgetting
<1>7. /\ pc \in [Processes -> States] /\ m \in [Processes -> Account_]
      /\ calls \in [Processes -> Seq(Frames)]
      /\ \A p \in Processes : pc[p] = "off" /\ m[p] = Blank /\ calls[p] = <<>>
  BY <1>4 DEF Init
<1> QED BY <1>3, <1>5, <1>6, <1>7 DEF IInv

\* However processes interleave, handlers nest and processes die, the invariant stays.
THEOREM Invariance == Spec => []IInv
<1>1. IInv /\ [Next]_vars => IInv'
  <2> SUFFICES ASSUME IInv, [Next]_vars PROVE IInv'
    OBVIOUS
  <2>1. CASE UNCHANGED vars
    BY <2>1 DEF vars, stores, history, IInv, SharedTypes
  <2>2. ASSUME NEW p \in Processes, Start(p) \/ Exit(p) \/ Load(p) \/ Request(p)
        PROVE  IInv'
    BY <2>2, StartExitStep, LoadStep, RequestStep
  <2>3. ASSUME NEW w \in Workers, Operation(w) \/ WorkerLoaded(w) \/ WorkerReply(w)
        PROVE  IInv'
    BY <2>3, WorkerStep
  <2>4. ASSUME NEW s \in Setups,
               \/ Refresh(s) \/ SetupLoaded(s) \/ OpenAuthorizationPage(s)
               \/ FinishAuthorization(s) \/ Redeemed(s) \/ AccountInfo(s)
        PROVE  IInv'
    BY <2>4, SetupStep
  <2>5. ASSUME NEW s \in Setups, Save(s) \/ Forget(s) PROVE IInv'
    BY <2>5, SaveStep, ForgetStep
  <2> QED BY <2>1, <2>2, <2>3, <2>4, <2>5 DEF Next
<1> QED BY <1>1, Initially, PTL DEF Spec

\* Every variable of the account model has its type, for any set of processes: an
\* email that never came included. Only setup widgets nest calls and save.
THEOREM TypeCorrect == Spec => []TypeOK
<1>1. ASSUME IInv PROVE TypeOK
  <2>1. SharedTypes
    BY <1>1 DEF IInv
  <2>2. /\ pc \in [Processes -> States] /\ m \in [Processes -> Account_]
        /\ calls \in [Processes -> Seq(Frames)]
    BY <1>1 DEF IInv
  <2>3. \A w \in Workers : pc[w] \notin Saving \cup Forgetting /\ Len(calls[w]) <= 1
    BY <1>1 DEF IInv, Processes, Stack, Holds, WorkerHolds
  <2>4. \A s \in Setups : Len(calls[s]) <= MaxDepth
    BY <1>1 DEF IInv, Processes, Stack
  <2> QED BY <2>1, <2>2, <2>3, <2>4 DEF TypeOK, SharedTypes, States, Account_
<1> QED BY <1>1, Invariance, PTL

\* What is written to the cache file was minted for the key that is written beside
\* it, by a worker and by a widget's call that no other handler disturbed: a load()
\* that compares the keys (loadCachedAccessToken) takes no token of another app from
\* it. A nested handler may change the key under the call, which is why the theorem
\* is about steps and not about the file.
THEOREM CacheIsHonest == Spec => CacheHonest
<1>1. ASSUME IInv, [Next]_vars,
             NEW p \in Processes, pc[p] = "store", pc'[p] = "idle",
             cache' \notin {cache, None}, p \in Workers \/ Innermost(p).code # None
      PROVE  cache'.key = cache'.token.key
  <2>1. PICK q \in Processes : StoreCache(q)
    <3>1. ~UNCHANGED vars
      BY <1>1 DEF vars, stores
    <3>2. ASSUME NEW q \in Processes, Start(q) \/ Exit(q) \/ Load(q) \/ Request(q)
          PROVE  StoreCache(q)
      BY <1>1, <3>2 DEF Start, Exit, Load, LoadConfig, LoadWallet, LoadFile, LoadCache,
         Request, Authorize, Refreshed, Rejected, Retried, stores
    <3>3. ASSUME NEW w \in Workers, Operation(w) \/ WorkerLoaded(w) \/ WorkerReply(w)
          PROVE  FALSE
      BY <1>1, <3>3 DEF Operation, WorkerLoaded, WorkerReply, stores
    <3>4. ASSUME NEW s \in Setups,
                 \/ Refresh(s) \/ SetupLoaded(s) \/ OpenAuthorizationPage(s)
                 \/ FinishAuthorization(s) \/ Redeemed(s) \/ AccountInfo(s)
          PROVE  FALSE
      BY <1>1, <3>4 DEF Refresh, SetupLoaded, OpenAuthorizationPage, FinishAuthorization,
         Redeemed, AccountInfo, stores
    <3>5. ASSUME NEW s \in Setups, Save(s) \/ Forget(s) PROVE FALSE
      BY <1>1, <3>5 DEF Save, SaveConfig, SaveWallet, SaveClean, SaveFile, Forget, Unlink,
         ForgetConfig, ForgetFile, ForgetWallet
    <3> QED BY <1>1, <3>1, <3>2, <3>3, <3>4, <3>5 DEF Next
  <2>2. p = q
    <3>1. Goto(q, "idle") /\ pc \in [Processes -> States]
      BY <1>1, <2>1 DEF StoreCache, Await, IInv
    <3> QED BY <1>1, <3>1 DEF Goto
  <2>3. cache' = CacheEntry(p)
    BY <1>1, <2>1, <2>2 DEF StoreCache
  <2>4. /\ Holds(p, "store", m[p], calls[p]) /\ Stack(p, "store", calls[p])
    BY <1>1, Apart
  <2>5. calls[p] # <<>>
    BY <2>4 DEF Stack, Busy, Calling
  <2>6. m[p].access # None
    BY <2>4 DEF Holds
  <2>7. m[p].access.key = m[p].key
    <3>1. CASE p \in Workers
      BY <2>4, <3>1 DEF Holds, WorkerHolds
    <3>2. CASE Innermost(p).code # None
      BY <1>1, <2>5, <2>6, <3>2, InnermostFrame DEF Fits
    <3> QED BY <1>1, <3>1, <3>2
  <2> QED BY <2>3, <2>7 DEF CacheEntry
<1>2. IInv /\ [Next]_vars =>
        \A p \in Processes :
          (/\ pc[p] = "store" /\ pc'[p] = "idle" /\ cache' \notin {cache, None}
           /\ p \in Workers \/ Innermost(p).code # None)
          => cache'.key = cache'.token.key
  BY <1>1
<1> QED BY <1>2, Invariance, PTL DEF Spec, CacheHonest

-----------------------------------------------------------------------------
(***************************************************************************)
(* The stores hold the link that was last made, and a load() that nobody     *)
(* disturbs reads it whole, for any number of workers and setup widgets,     *)
(* whether the wallet opens or not.                                         *)
(*                                                                         *)
(* What an undisturbed save() writes is what its code is for, by IInv (Fits), *)
(* and else what the widget holds. That the stores agree when the last write *)
(* is done needs what was written before (Wrote), which only counts for a     *)
(* widget that nobody disturbed while it wrote; and then it is the only one   *)
(* that is midway (Alone). A process that reads undisturbed has read what the *)
(* link is made of (HasRead).                                               *)
(***************************************************************************)

\* Where a process that loads has read the config file.
Shown == {"wallet", "file", "cache", "loaded"}

\* What an undisturbed process has written so far.
Wrote(at, a) ==
    /\ at \in Saving \ {"saveConfig"} => config = [key |-> a.key, email |-> a.email]
    /\ at = "saveClean" => enabled /\ wallet = a.refresh
    /\ at \in {"forgetFile", "forgetWallet"} => config = [key |-> BuiltIn, email |-> None]
    /\ at = "forgetWallet" => file = None

\* What an undisturbed process has read so far.
HasRead(p, at, a) ==
    link # Torn =>
        /\ at \in Shown => a.key = link.key /\ a.email = link.email
        /\ at = "file" => ~enabled \/ wallet = None
        /\ at \in {"cache", "loaded"} /\ (link.token # None \/ p \in Workers)
              => a.refresh = link.token

\* Whoever is undisturbed while a widget is midway is that widget.
Alone == \A s \in Setups : Midway(s) => intact \subseteq {s}

\* Everything that is shown to stay true, next to IInv.
LinkInv ==
    /\ Alone /\ StoreIsLink
    /\ \A p \in intact : Wrote(pc[p], m[p]) /\ HasRead(p, pc[p], m[p])

\* A process that is midway is a setup widget.
LEMMA MidwayIsSetup ==
    ASSUME IInv, NEW p \in Processes, Midway(p)
    PROVE  p \in Setups
BY DEF IInv, Holds, WorkerHolds, Midway, Processes

\* While a process that is not midway is undisturbed, nobody is midway.
LEMMA IntactIsQuiet ==
    ASSUME IInv, LinkInv, NEW p \in intact, ~Midway(p)
    PROVE  Quiet
BY DEF LinkInv, Alone, Quiet

\* Where a step leaves a process, and that it leaves the others alone.
LEMMA Others ==
    ASSUME IInv, NEW p \in Processes
    PROVE  /\ \A where : Goto(p, where) =>
                pc'[p] = where /\ \A q \in Processes \ {p} : pc'[q] = pc[q]
           /\ \A a : Hold(p, a) => m'[p] = a /\ \A q \in Processes \ {p} : m'[q] = m[q]
BY DEF IInv, Goto, Hold

\* A step of one process that leaves the link alone, and begins no change of it.
LEMMA ReadingStep ==
    ASSUME IInv, LinkInv, NEW p \in Processes,
           \A q \in Processes \ {p} : pc'[q] = pc[q] /\ m'[q] = m[q],
           ~Midway(p), ~Midway(p)',
           UNCHANGED <<enabled, config, wallet, file, link>>,
           \/ intact' \in {intact, intact \ {p}}
           \/ Quiet /\ intact' = intact \cup {p},
           p \in intact' => HasRead(p, pc'[p], m'[p])
    PROVE  LinkInv'
<1>1. \A q \in Processes : Midway(q)' <=> Midway(q)
  BY DEF Midway
<1>2. Quiet' <=> Quiet
  BY <1>1 DEF Quiet, Processes
<1>3. Alone'
  <2> SUFFICES ASSUME NEW s \in Setups, Midway(s)' PROVE intact' \subseteq {s}
    BY DEF Alone
  <2>1. Midway(s) /\ ~Quiet
    BY <1>1 DEF Quiet, Processes
  <2> QED BY <2>1 DEF LinkInv, Alone
<1>4. StoreIsLink'
  BY <1>2 DEF LinkInv, StoreIsLink, StoredToken
<1>5. ASSUME NEW q \in intact' PROVE (Wrote(pc[q], m[q]) /\ HasRead(q, pc[q], m[q]))'
  <2>1. q \in Processes
    BY DEF IInv, SharedTypes
  <2>2. CASE q = p
    <3>1. HasRead(q, pc'[q], m'[q])
      BY <2>2
    <3>2. Wrote(pc'[q], m'[q])
      BY <2>2 DEF Midway, Wrote, Forgetting, Saving
    <3> QED BY <3>1, <3>2 DEF Wrote, HasRead
  <2>3. CASE q # p
    <3>1. q \in intact
      BY <2>3
    <3>2. Wrote(pc[q], m[q]) /\ HasRead(q, pc[q], m[q]) /\ pc'[q] = pc[q] /\ m'[q] = m[q]
      BY <2>1, <2>3, <3>1 DEF LinkInv
    <3> QED BY <3>2 DEF Wrote, HasRead
  <2> QED BY <2>2, <2>3
<1> QED BY <1>3, <1>4, <1>5 DEF LinkInv

\* A write of save() or forget(): whoever else was undisturbed is not any more.
LEMMA WritingStep ==
    ASSUME IInv, LinkInv, NEW s \in Setups, NEW where, Goto(s, where), UNCHANGED m,
           where \in {"idle", "saveWallet", "saveClean", "saveFile", "forgetFile",
                      "forgetWallet"},
           FirstWrite(s) \/ LaterWrite(s) \/ LastWrite(s),
           s \in intact' => Wrote(where, m[s])',
           \/ where # "idle"
           \/ link' = Torn
           \/ /\ StoredToken' = link'.token
              /\ config' = [key |-> link'.key, email |-> link'.email]
    PROVE  LinkInv'
<1>1. /\ s \in Processes /\ pc'[s] = where
      /\ \A q \in Processes \ {s} : pc'[q] = pc[q]
  BY Widget, Others
<1>2. intact' \subseteq {s} /\ \A t \in Setups \ {s} : Midway(t) => intact' = {}
  BY DEF FirstWrite, LaterWrite, LastWrite, Quiet, LinkInv, Alone
<1>3. \A q \in Processes \ {s} : Midway(q)' <=> Midway(q)
  BY <1>1 DEF Midway
<1>4. Alone'
  BY <1>2, <1>3 DEF Alone, Processes
<1>5. StoreIsLink'
  <2>1. ASSUME where # "idle" PROVE ~Quiet'
    BY <1>1, <2>1 DEF Quiet, Midway, Saving, Forgetting
  <2> QED BY <2>1 DEF StoreIsLink
<1>6. ASSUME NEW q \in intact' PROVE (Wrote(pc[q], m[q]) /\ HasRead(q, pc[q], m[q]))'
  <2>1. q = s
    BY <1>2
  <2>2. Wrote(pc[q], m[q])'
    BY <1>1, <2>1 DEF Wrote
  <2>3. HasRead(q, pc[q], m[q])'
    BY <1>1, <2>1 DEF HasRead, Shown
  <2> QED BY <2>2, <2>3
<1> QED BY <1>4, <1>5, <1>6 DEF LinkInv

\* A step after which its process is neither loading nor midway, if it was not midway.
LEMMA AsideStep ==
    ASSUME IInv, LinkInv, NEW p \in Processes, ~Midway(p),
           \A q \in Processes \ {p} : pc'[q] = pc[q] /\ m'[q] = m[q],
           pc'[p] \in {"off", "idle", "config", "authorize", "store", "saveConfig",
                       "forgetConfig"},
           UNCHANGED <<enabled, config, wallet, file, link>>,
           intact' \in {intact, intact \ {p}}
    PROVE  LinkInv'
<1>1. ~Midway(p)'
  BY DEF Midway, Saving, Forgetting
<1>2. HasRead(p, pc'[p], m'[p])
  BY DEF HasRead, Shown
<1> QED BY <1>1, <1>2, ReadingStep

\* A process that starts has nothing yet, and one that ends midway leaves a torn link.
LEMMA LinkStartExit ==
    ASSUME IInv, LinkInv, NEW p \in Processes, Start(p) \/ Exit(p)
    PROVE  LinkInv'
<1>1. CASE Start(p)
  <2>1. ~Midway(p) /\ UNCHANGED <<enabled, config, wallet, file, link, intact>>
    BY <1>1 DEF Start, Midway, Saving, Forgetting, stores, history
  <2>2. pc'[p] = "config" /\ \A q \in Processes \ {p} : pc'[q] = pc[q] /\ m'[q] = m[q]
    BY <1>1, Others DEF Start
  <2> QED BY <2>1, <2>2, AsideStep
<1>2. CASE Exit(p)
  <2>1. /\ pc'[p] = "off" /\ \A q \in Processes \ {p} : pc'[q] = pc[q] /\ m'[q] = m[q]
        /\ UNCHANGED <<enabled, config, wallet, file>> /\ intact' = intact \ {p}
        /\ link' = IF Midway(p) THEN Torn ELSE link
    BY <1>2, Others DEF Exit, stores
  <2>2. CASE ~Midway(p)
    BY <2>1, <2>2, AsideStep
  <2>3. CASE Midway(p)
    <3>1. intact' = {} /\ link' = Torn
      BY <2>1, <2>3, MidwayIsSetup DEF LinkInv, Alone
    <3> QED BY <3>1 DEF LinkInv, Alone, StoreIsLink
  <2> QED BY <2>2, <2>3
<1> QED BY <1>1, <1>2

\* load() of a process that nobody disturbs reads the link that is stored.
LEMMA LinkLoad ==
    ASSUME IInv, LinkInv, NEW p \in Processes, Load(p)
    PROVE  LinkInv'
<1>0. /\ m[p] \in Account_ /\ Holds(p, pc[p], m[p], calls[p])
      /\ pc[p] \in {"config", "wallet", "file", "cache"}
  BY Apart DEF Load, LoadConfig, LoadWallet, LoadFile, LoadCache
<1>1. ~Midway(p)
  BY <1>0 DEF Midway, Saving, Forgetting
<1>2. p \in intact => Quiet /\ HasRead(p, pc[p], m[p])
  BY <1>1, IntactIsQuiet DEF LinkInv
<1>3. Quiet /\ link # Torn =>
        /\ StoredToken = link.token
        /\ config.key = link.key /\ config.email = link.email
  BY DEF LinkInv, StoreIsLink
<1>4. ASSUME NEW where \in Shown, NEW a, Goto(p, where), Hold(p, a),
             UNCHANGED <<enabled, config, wallet, file, link>>,
             \/ intact' \in {intact, intact \ {p}}
             \/ Quiet /\ intact' = intact \cup {p},
             p \in intact' => HasRead(p, where, a)
      PROVE  LinkInv'
  <2>1. pc'[p] = where /\ m'[p] = a
        /\ \A q \in Processes \ {p} : pc'[q] = pc[q] /\ m'[q] = m[q]
    BY <1>4, Others
  <2>2. ~Midway(p)'
    BY <2>1 DEF Midway, Shown, Saving, Forgetting
  <2> QED BY <1>1, <1>4, <2>1, <2>2, ReadingStep
<1>5. CASE LoadConfig(p)
  <2> DEFINE a == ReadConfig(p)
  <2>1. /\ Goto(p, "wallet") /\ Hold(p, a)
        /\ UNCHANGED <<enabled, config, wallet, file, link>>
        /\ intact' = IF Quiet THEN intact \cup {p} ELSE intact \ {p}
    BY <1>5 DEF LoadConfig, stores
  <2>2. a.key = config.key /\ a.email = config.email
    BY <1>0 DEF ReadConfig, Account_
  <2> HIDE DEF a
  <2>3. p \in intact' => HasRead(p, "wallet", a)
    BY <1>3, <2>1, <2>2 DEF HasRead, Shown
  <2> QED BY <1>4, <2>1, <2>3 DEF Shown
<1>6. CASE LoadWallet(p)
  <2>1. UNCHANGED <<enabled, config, wallet, file, link>> /\ pc[p] = "wallet"
    BY <1>6 DEF LoadWallet, stores
  <2>2. PICK open \in Opens :
          /\ IF open /\ wallet # None
             THEN Hold(p, [m[p] EXCEPT !.refresh = wallet]) /\ Goto(p, "cache")
             ELSE Goto(p, "file") /\ UNCHANGED m
          /\ intact' = IF enabled /\ ~open THEN intact \ {p} ELSE intact
    BY <1>6 DEF LoadWallet
  <2>3. open => enabled
    BY <2>2 DEF Opens
  <2>4. CASE open /\ wallet # None
    <3> DEFINE a == [m[p] EXCEPT !.refresh = wallet]
    <3>1. Hold(p, a) /\ Goto(p, "cache")
      BY <2>2, <2>4
    <3>2. a.refresh = wallet /\ a.key = m[p].key /\ a.email = m[p].email
      BY <1>0 DEF Account_
    <3> HIDE DEF a
    <3>3. StoredToken = wallet
      BY <2>3, <2>4 DEF StoredToken
    <3>4. p \in intact' => HasRead(p, "cache", a)
      BY <1>2, <1>3, <2>1, <2>2, <3>2, <3>3 DEF HasRead, Shown
    <3> QED BY <1>4, <2>1, <2>2, <3>1, <3>4 DEF Shown
  <2>5. CASE ~(open /\ wallet # None)
    <3>1. Hold(p, m[p]) /\ Goto(p, "file")
      BY <2>2, <2>5, Same
    <3>2. p \in intact' => HasRead(p, "file", m[p])
      BY <1>2, <2>1, <2>2, <2>5 DEF HasRead, Shown
    <3> QED BY <1>4, <2>1, <2>2, <3>1, <3>2 DEF Shown
  <2> QED BY <2>4, <2>5
<1>7. CASE LoadFile(p)
  <2> DEFINE a == IF file = None THEN m[p] ELSE [m[p] EXCEPT !.refresh = file.token]
  <2>1. /\ UNCHANGED <<enabled, config, wallet, file, link, intact>> /\ pc[p] = "file"
        /\ Goto(p, "cache") /\ Hold(p, a)
    BY <1>7 DEF LoadFile, stores, history
  <2>2. /\ a.key = m[p].key /\ a.email = m[p].email
        /\ a.refresh = IF file = None THEN m[p].refresh ELSE file.token
    BY <1>0 DEF Account_
  <2> HIDE DEF a
  <2>3. p \in Workers => m[p].refresh = None
    BY <1>0, <2>1 DEF Holds, WorkerHolds
  <2>4. p \in intact' => HasRead(p, "cache", a)
    BY <1>2, <1>3, <2>1, <2>2, <2>3 DEF HasRead, Shown, StoredToken
  <2> QED BY <1>4, <2>1, <2>4 DEF Shown
<1>8. CASE LoadCache(p)
  <2>1. /\ UNCHANGED <<enabled, config, wallet, file, link, intact>> /\ pc[p] = "cache"
        /\ Goto(p, "loaded")
    BY <1>8 DEF LoadCache, stores, history
  <2>2. ASSUME NEW a, Hold(p, a), a.refresh = m[p].refresh,
               a.key = m[p].key, a.email = m[p].email
        PROVE  LinkInv'
    <3>1. p \in intact' => HasRead(p, "loaded", a)
      BY <1>2, <2>1, <2>2 DEF HasRead, Shown
    <3> QED BY <1>4, <2>1, <2>2, <3>1 DEF Shown
  <2>3. CASE UNCHANGED m
    BY <2>2, <2>3, Same
  <2>4. CASE Hold(p, [m[p] EXCEPT !.access = cache.token])
    <3> DEFINE a == [m[p] EXCEPT !.access = cache.token]
    <3>1. a.refresh = m[p].refresh /\ a.key = m[p].key /\ a.email = m[p].email
      BY <1>0 DEF Account_
    <3>2. Hold(p, a)
      BY <2>4
    <3> HIDE DEF a
    <3> QED BY <2>2, <3>1, <3>2
  <2> QED BY <1>8, <2>3, <2>4 DEF LoadCache
<1> QED BY <1>5, <1>6, <1>7, <1>8 DEF Load

\* A call leaves the link alone.
LEMMA LinkRequest ==
    ASSUME IInv, LinkInv, NEW p \in Processes, Request(p)
    PROVE  LinkInv'
<1>1. /\ pc[p] \in {"authorize", "idle", "store"}
      /\ UNCHANGED <<enabled, config, wallet, file, link, intact>>
  BY DEF Request, Authorize, Refreshed, StoreCache, Rejected, Retried, Waiting, stores,
         history
<1>2. ~Midway(p)
  BY <1>1 DEF Midway, Saving, Forgetting
<1>3. Goto(p, "idle") \/ Goto(p, "store") \/ Goto(p, "authorize")
  BY DEF Request, Authorize, Refreshed, StoreCache, Rejected, Retried, Await, Answered,
         Return
<1>4. \A q \in Processes \ {p} : m'[q] = m[q]
  <2>1. UNCHANGED m \/ Refreshed(p) \/ Rejected(p)
    BY DEF Request, Authorize, StoreCache, Retried
  <2> QED BY <2>1, Others DEF Refreshed, Rejected
<1>5. /\ pc'[p] \in {"idle", "store", "authorize"}
      /\ \A q \in Processes \ {p} : pc'[q] = pc[q]
  BY <1>3, Others
<1> QED BY <1>1, <1>2, <1>4, <1>5, AsideStep

\* So do a worker's operations.
LEMMA LinkWorker ==
    ASSUME IInv, LinkInv, NEW w \in Workers,
           Operation(w) \/ WorkerLoaded(w) \/ WorkerReply(w)
    PROVE  LinkInv'
<1>1. w \in Processes /\ ~Midway(w)
  BY DEF Processes, Operation, WorkerLoaded, WorkerReply, Waiting, Midway, Saving,
         Forgetting
<1>2. UNCHANGED <<enabled, config, wallet, file, link, intact, m>>
  BY DEF Operation, WorkerLoaded, WorkerReply, stores, history
<1>3. Goto(w, "authorize") \/ Goto(w, "config") \/ Goto(w, "idle")
  BY DEF Operation, WorkerLoaded, WorkerReply, Return
<1>4. /\ pc'[w] \in {"authorize", "config", "idle"}
      /\ \A q \in Processes \ {w} : pc'[q] = pc[q]
  BY <1>1, <1>3, Others
<1> QED BY <1>1, <1>2, <1>4, AsideStep

\* So do the handlers of a widget and the answers to its calls, until it saves.
LEMMA LinkSetup ==
    ASSUME IInv, LinkInv, NEW s \in Setups,
           \/ Refresh(s) \/ SetupLoaded(s) \/ OpenAuthorizationPage(s)
           \/ FinishAuthorization(s) \/ Redeemed(s) \/ AccountInfo(s)
    PROVE  LinkInv'
<1>1. s \in Processes /\ ~Midway(s) /\ pc[s] \in {"idle", "loaded"}
  BY Widget DEF Refresh, SetupLoaded, OpenAuthorizationPage, FinishAuthorization,
     Redeemed, AccountInfo, Waiting, Midway, Saving, Forgetting
<1>2. UNCHANGED <<enabled, config, wallet, file, link>> /\ intact' \in {intact, intact \ {s}}
  BY DEF Refresh, SetupLoaded, OpenAuthorizationPage, FinishAuthorization, Redeemed,
         AccountInfo, stores, history
<1>3. \/ Goto(s, "config") \/ Goto(s, "idle") \/ Goto(s, "authorize")
      \/ Goto(s, "saveConfig") \/ (UNCHANGED pc /\ pc[s] = "idle")
  BY DEF Refresh, SetupLoaded, OpenAuthorizationPage, FinishAuthorization, Redeemed,
         AccountInfo, Answered, Return
<1>4. /\ pc'[s] \in {"config", "idle", "authorize", "saveConfig"}
      /\ \A q \in Processes \ {s} : pc'[q] = pc[q]
  BY <1>1, <1>3, Others
<1>5. \A q \in Processes \ {s} : m'[q] = m[q]
  <2>1. UNCHANGED m \/ \E a : Hold(s, a)
    BY DEF Refresh, SetupLoaded, OpenAuthorizationPage, FinishAuthorization, Redeemed,
         AccountInfo
  <2> QED BY <1>1, <2>1, Others
<1> QED BY <1>1, <1>2, <1>4, <1>5, AsideStep

\* save() that nobody disturbs while it writes stores what it was to, store by store.
LEMMA LinkSave ==
    ASSUME IInv, LinkInv, NEW s \in Setups, Save(s)
    PROVE  LinkInv'
<1>1. s \in Processes /\ pc[s] \in Saving /\ UNCHANGED <<m, enabled>>
  BY Widget DEF Save, SaveConfig, SaveWallet, SaveClean, SaveFile, Saving
<1>2. s \in intact => Wrote(pc[s], m[s])
  BY DEF LinkInv
<1> DEFINE whole == [key |-> m[s].key, email |-> m[s].email]
<1>3. /\ ToSave(s) = [key |-> m[s].key, email |-> m[s].email, token |-> m[s].refresh]
      /\ ToSave(s).key = m[s].key /\ ToSave(s).email = m[s].email
      /\ ToSave(s).token = m[s].refresh
  BY <1>1, ToSaveIsHeld
<1>4. Wrote("idle", m[s])'
  BY DEF Wrote, Saving
<1>5. CASE SaveConfig(s)
  <2>1. CASE config' = whole /\ Goto(s, "saveWallet") /\ FirstWrite(s)
    <3>1. Wrote("saveWallet", m[s])'
      BY <1>1, <2>1 DEF Wrote
    <3> QED BY <1>1, <2>1, <3>1, WritingStep
  <2>2. CASE Return(s) /\ UNCHANGED <<config, intact>>
    <3>1. ~Midway(s)
      BY <1>5 DEF SaveConfig, Midway
    <3>2. UNCHANGED <<enabled, config, wallet, file, link, intact>>
      BY <1>5, <2>2 DEF SaveConfig
    <3>3. pc'[s] = "idle" /\ \A q \in Processes \ {s} : pc'[q] = pc[q] /\ m'[q] = m[q]
      BY <1>1, <2>2, Others DEF Return
    <3> QED BY <1>1, <3>1, <3>2, <3>3, AsideStep
  <2> QED BY <1>5, <2>1, <2>2 DEF SaveConfig
<1>6. CASE SaveWallet(s)
  <2>1. PICK open \in Opens :
          IF open THEN wallet' = m[s].refresh /\ Goto(s, "saveClean")
                  ELSE Goto(s, "saveFile") /\ UNCHANGED wallet
    BY <1>6 DEF SaveWallet
  <2>2. open => enabled
    BY <2>1 DEF Opens
  <2>3. s \in intact' => config' = whole
    BY <1>2, <1>6 DEF SaveWallet, LaterWrite, Wrote, Saving
  <2>4. LaterWrite(s)
    BY <1>6 DEF SaveWallet
  <2>5. CASE open
    <3>1. s \in intact' => Wrote("saveClean", m[s])'
      BY <1>1, <2>1, <2>2, <2>3, <2>5 DEF Wrote
    <3> QED BY <1>1, <2>1, <2>4, <2>5, <3>1, WritingStep
  <2>6. CASE ~open
    <3>1. s \in intact' => Wrote("saveFile", m[s])'
      BY <1>1, <2>3 DEF Wrote
    <3> QED BY <1>1, <2>1, <2>4, <2>6, <3>1, WritingStep
  <2> QED BY <2>5, <2>6
<1>7. CASE SaveClean(s)
  <2>1. s \in intact => config' = whole /\ enabled' /\ wallet' = m[s].refresh /\ file' = None
    BY <1>1, <1>2, <1>7 DEF SaveClean, Wrote, Saving
  <2>2. link' = IF s \in intact THEN ToSave(s) ELSE Torn
    BY <1>7 DEF SaveClean, Leaves
  <2>3. s \in intact =>
          /\ StoredToken' = link'.token
          /\ config' = [key |-> link'.key, email |-> link'.email]
    BY <1>3, <2>1, <2>2 DEF StoredToken
  <2>4. Goto(s, "idle") /\ LastWrite(s)
    BY <1>7 DEF SaveClean, Saved, Return
  <2> QED BY <1>1, <1>4, <2>2, <2>3, <2>4, WritingStep
<1>8. CASE SaveFile(s)
  <2>1. s \in intact => config' = whole
    BY <1>2, <1>8 DEF SaveFile, Wrote, Saving
  <2>2. link' # Torn =>
          /\ s \in intact /\ link' = ToSave(s) /\ file' = [token |-> m[s].refresh]
          /\ ~(enabled' /\ wallet' # None)
    BY <1>1, <1>8 DEF SaveFile, Leaves
  <2>3. file' = [token |-> m[s].refresh] => file' # None /\ file'.token = m[s].refresh
    <3>1. m[s].refresh \in Tokens
      BY <1>1, Apart, Fields
    <3>2. None \notin [token: Tokens]
      BY NoneAssumption
    <3> QED BY <3>1, <3>2
  <2>4. link' # Torn =>
          /\ StoredToken' = link'.token
          /\ config' = [key |-> link'.key, email |-> link'.email]
    BY <1>3, <2>1, <2>2, <2>3 DEF StoredToken
  <2>5. Goto(s, "idle") /\ LastWrite(s)
    BY <1>8 DEF SaveFile, Saved, Return
  <2> QED BY <1>1, <1>4, <2>4, <2>5, WritingStep
<1> QED BY <1>5, <1>6, <1>7, <1>8 DEF Save

\* forget() that nobody disturbs leaves nothing behind, if the wallet opens.
LEMMA LinkForget ==
    ASSUME IInv, LinkInv, NEW s \in Setups, Forget(s)
    PROVE  LinkInv'
<1>1. s \in Processes /\ UNCHANGED enabled
  BY Widget DEF Forget, Unlink, ForgetConfig, ForgetFile, ForgetWallet
<1>2. s \in intact => Wrote(pc[s], m[s])
  BY DEF LinkInv
<1>3. CASE Unlink(s)
  <2>1. ~Midway(s) /\ UNCHANGED <<enabled, config, wallet, file, link, intact>>
    BY <1>1, <1>3 DEF Unlink, history, Midway, Saving, Forgetting
  <2>2. pc'[s] = "forgetConfig" /\ \A q \in Processes \ {s} : pc'[q] = pc[q] /\ m'[q] = m[q]
    BY <1>1, <1>3, Others DEF Unlink
  <2> QED BY <1>1, <2>1, <2>2, AsideStep
<1>4. CASE ForgetConfig(s)
  <2>1. Wrote("forgetFile", m[s])'
    BY <1>4 DEF Wrote, ForgetConfig, Saving
  <2>2. Goto(s, "forgetFile") /\ FirstWrite(s) /\ UNCHANGED m
    BY <1>4 DEF ForgetConfig
  <2> QED BY <2>1, <2>2, WritingStep
<1>5. CASE ForgetFile(s)
  <2>1. /\ Goto(s, "forgetWallet") /\ LaterWrite(s) /\ UNCHANGED m
        /\ s \in intact' => s \in intact
    BY <1>5 DEF ForgetFile, LaterWrite
  <2>2. s \in intact => Wrote("forgetWallet", m[s])'
    BY <1>2, <1>5 DEF Wrote, ForgetFile, Saving
  <2> QED BY <2>1, <2>2, WritingStep
<1>6. CASE ForgetWallet(s)
  <2>1. Wrote("idle", m[s])'
    BY DEF Wrote, Saving
  <2>2. s \in intact => config' = [key |-> BuiltIn, email |-> None] /\ file' = None
    BY <1>2, <1>6 DEF Wrote, ForgetWallet
  <2>3. link' # Torn => s \in intact /\ link' = NoLink /\ ~(enabled' /\ wallet' # None)
    BY <1>1, <1>6 DEF ForgetWallet, Leaves
  <2>4. link' # Torn =>
          /\ StoredToken' = link'.token
          /\ config' = [key |-> link'.key, email |-> link'.email]
    BY <2>2, <2>3 DEF StoredToken, NoLink
  <2>5. Goto(s, "idle") /\ LastWrite(s) /\ UNCHANGED m
    BY <1>6 DEF ForgetWallet
  <2> QED BY <2>1, <2>4, <2>5, WritingStep
<1> QED BY <1>3, <1>4, <1>5, <1>6 DEF Forget

\* The link there may be from before is in the stores, and nobody has begun.
LEMMA LinkInit == Init => LinkInv
<1> SUFFICES ASSUME Init PROVE LinkInv
  OBVIOUS
<1>1. intact = {} /\ \A p \in Processes : pc[p] = "off"
  BY DEF Init
<1>2. Alone
  BY <1>1, Widget DEF Alone, Midway, Saving, Forgetting
<1>3. StoredToken = link.token
  <2>1. link.token \in Tokens
    <3>1. link \in Links
      BY DEF Init, NoLink, Links, Grants, Tokens, Emails
    <3> QED BY <3>1 DEF Links
  <2>2. None \notin [token: Tokens] /\ [token |-> link.token] \in [token: Tokens]
    BY <2>1, NoneAssumption
  <2> QED BY <2>2 DEF Init, StoredToken
<1>4. StoreIsLink
  BY <1>3 DEF Init, StoreIsLink
<1> QED BY <1>1, <1>2, <1>4 DEF LinkInv

\* The invariant stays, next to the one above.
THEOREM LinkInvariance == Spec => []LinkInv
<1>1. IInv /\ LinkInv /\ [Next]_vars => LinkInv'
  <2> SUFFICES ASSUME IInv, LinkInv, [Next]_vars PROVE LinkInv'
    OBVIOUS
  <2>1. CASE UNCHANGED vars
    <3>1. UNCHANGED <<enabled, config, wallet, file, m, pc, link, intact>>
      BY <2>1 DEF vars, stores, history
    <3>2. Alone' /\ StoreIsLink'
      BY <3>1 DEF LinkInv, Alone, StoreIsLink, StoredToken, Quiet, Midway
    <3>3. \A p \in intact' : (Wrote(pc[p], m[p]) /\ HasRead(p, pc[p], m[p]))'
      BY <3>1 DEF LinkInv, Wrote, HasRead
    <3> QED BY <3>2, <3>3 DEF LinkInv
  <2>2. ASSUME NEW p \in Processes, Start(p) \/ Exit(p) \/ Load(p) \/ Request(p)
        PROVE  LinkInv'
    BY <2>2, LinkStartExit, LinkLoad, LinkRequest
  <2>3. ASSUME NEW w \in Workers, Operation(w) \/ WorkerLoaded(w) \/ WorkerReply(w)
        PROVE  LinkInv'
    BY <2>3, LinkWorker
  <2>4. ASSUME NEW s \in Setups,
               \/ Refresh(s) \/ SetupLoaded(s) \/ OpenAuthorizationPage(s)
               \/ FinishAuthorization(s) \/ Redeemed(s) \/ AccountInfo(s)
        PROVE  LinkInv'
    BY <2>4, LinkSetup
  <2>5. ASSUME NEW s \in Setups, Save(s) \/ Forget(s) PROVE LinkInv'
    BY <2>5, LinkSave, LinkForget
  <2> QED BY <2>1, <2>2, <2>3, <2>4, <2>5 DEF Next
<1> QED BY <1>1, LinkInit, Invariance, PTL DEF Spec

\* While nobody is midway the config file and the refresh token are those of the
\* code that was entered last, the email perhaps missing; or what a widget held
\* whose own handlers had changed its account; or there are none (save() and
\* forget()), however many windows there are and whether the wallet opens.
THEOREM StoresHoldLink == Spec => []StoreIsLink
<1>1. LinkInv => StoreIsLink
  BY DEF LinkInv
<1> QED BY <1>1, LinkInvariance, PTL

\* load() of a process that nobody disturbed while it read sees what the last
\* save() or forget() was to leave.
THEOREM LoadIsWhole == Spec => []LoadSeesLink
<1>1. LinkInv => LoadSeesLink
  <2> SUFFICES ASSUME LinkInv, NEW p \in Processes,
                      pc[p] = "loaded", p \in intact, link # Torn
               PROVE  /\ m[p].key = link.key /\ m[p].email = link.email
                      /\ link.token # None \/ p \in Workers => m[p].refresh = link.token
    BY DEF LoadSeesLink
  <2>1. HasRead(p, "loaded", m[p])
    BY DEF LinkInv
  <2> QED BY <2>1 DEF HasRead, Shown
<1> QED BY <1>1, LinkInvariance, PTL
==============================================================================
