--------------------------- MODULE SetupFlowProofs ---------------------------
(***************************************************************************)
(* What SetupFlow promises, for any accounts and keys and however deeply    *)
(* the calls of a widget nest. Three things are shown apart from each other, *)
(* because they rest on different parts of the state: the types; what the   *)
(* calls under way may rely on (CallsFit), which is why a call that nobody   *)
(* disturbed saves the link of its own code; and what the calls of          *)
(* setShown() have seen (Looked), which is why the checkbox and the sidebar *)
(* agree and the entry is never there twice.                                *)
(***************************************************************************)
EXTENDS SetupFlow, SequenceTheorems, TLAPS

\* What a call of finishAuthorization() may be, and what setShown() keeps.
Calls == [at: {"redeem", "info"}, code: Grants, key: Keys, verifier: 0..MaxPages,
          bearer: Tokens, clean: BOOLEAN]

Placings == [want: BOOLEAN, found: BOOLEAN, next: {"linked", "connect", "stay"}]

DropboxAccounts == [key: Keys, email: Emails, refresh: Tokens, access: Tokens]

USE KeysAssumption, BoundsAssumption

\* The innermost call, and those it was made from.
LEMMA OuterCalls ==
    ASSUME TypeOK, calls # <<>>
    PROVE  /\ Innermost \in Calls /\ Len(calls) \in 1..MaxDepth
           /\ Outer \in Seq(Calls) /\ Len(Outer) = Len(calls) - 1
           /\ \A i \in 1..Len(Outer) : Outer[i] = calls[i]
<1>1. calls \in Seq(Calls) /\ Len(calls) <= MaxDepth
  BY DEF TypeOK, Calls
<1>2. Len(calls) \in Nat \ {0} /\ \A i \in 1..Len(calls) : calls[i] \in Calls
  BY <1>1, EmptySeq, ElementOfSeq
<1>3. \A i \in 1 .. Len(calls) - 1 : calls[i] \in Calls
  BY <1>2
<1>4. /\ Outer \in Seq(Calls) /\ Len(Outer) = Len(calls) - 1
      /\ \A i \in 1 .. Len(calls) - 1 : Outer[i] = calls[i]
  <2> DEFINE n == Len(calls) - 1
  <2>1. n \in Int /\ n >= 0
    BY <1>2
  <2> HIDE DEF n
  <2>2. \A i \in 1..n : calls[i] \in Calls
    BY <1>3 DEF n
  <2>3. /\ SubSeq(calls, 1, n) \in Seq(Calls)
        /\ Len(SubSeq(calls, 1, n)) = IF 1 <= n THEN n - 1 + 1 ELSE 0
        /\ \A i \in 1 .. n - 1 + 1 : SubSeq(calls, 1, n)[i] = calls[1 + i - 1]
    BY <2>1, <2>2, SubSeqProperties
  <2>4. Len(SubSeq(calls, 1, n)) = n /\ \A i \in 1..n : SubSeq(calls, 1, n)[i] = calls[i]
    BY <2>1, <2>3
  <2> QED BY <2>3, <2>4 DEF Outer, n
<1> QED BY <1>1, <1>2, <1>4 DEF Innermost

\* Calls that are disturbed are calls, and none of them is clean.
LEMMA DisturbedCalls ==
    ASSUME NEW under \in Seq(Calls)
    PROVE  /\ Disturbed(under) \in Seq(Calls) /\ Len(Disturbed(under)) = Len(under)
           /\ \A i \in 1..Len(under) : ~Disturbed(under)[i].clean
<1>1. DOMAIN under = 1..Len(under) /\ Len(under) \in Nat
  BY LenProperties
<1>2. \A c \in Calls : [c EXCEPT !.clean = FALSE] \in Calls
                       /\ ~[c EXCEPT !.clean = FALSE].clean
  BY DEF Calls
<1>3. \A i \in 1..Len(under) :
        /\ Disturbed(under)[i] = [under[i] EXCEPT !.clean = FALSE]
        /\ under[i] \in Calls
  BY <1>1, ElementOfSeq DEF Disturbed
<1>4. Disturbed(under) \in [1..Len(under) -> Calls]
  BY <1>1, <1>2, <1>3, Zenon DEF Disturbed
<1>5. Disturbed(under) \in Seq(Calls) /\ Len(Disturbed(under)) = Len(under)
  BY <1>1, <1>4
<1> QED BY <1>2, <1>3, <1>5, Zenon

\* load() makes an account of whatever is in the stores.
LEMMA LoadedAccount ==
    ASSUME NEW account \in DropboxAccounts, NEW found \in Links,
           NEW result \in Loaded(account, found)
    PROVE  result \in DropboxAccounts
<1>1. /\ result.key = found.key /\ result.email = found.email
      /\ result.refresh \in IF found.token = None THEN {account.refresh, None}
                            ELSE {found.token}
      /\ result.access \in {account.access} \cup Grants
      /\ result = [key |-> result.key, email |-> result.email,
                   refresh |-> result.refresh, access |-> result.access]
  BY DEF Loaded
<1>2. result.key \in Keys /\ result.email \in Emails /\ result.refresh \in Tokens
  BY <1>1 DEF Links, Tokens, DropboxAccounts
<1>3. result.access \in Tokens
  BY <1>1 DEF Tokens, DropboxAccounts
<1> QED BY <1>1, <1>2, <1>3 DEF DropboxAccounts

\* What unlink() leaves is a link, and so is what is stored of a grant.
LEMMA LinksThatAre ==
    /\ NoLink \in Links
    /\ \A g \in Grants : [key |-> g.key, email |-> g.acct, token |-> g] \in Links
<1>1. NoLink \in Links
  BY DEF NoLink, Links, Emails, Tokens
<1>2. ASSUME NEW g \in Grants
      PROVE  [key |-> g.key, email |-> g.acct, token |-> g] \in Links
  BY <1>2 DEF Grants, Links, Emails, Tokens
<1> QED BY <1>1, <1>2

LEMMA TypeInit == Init => TypeOK
<1> SUFFICES ASSUME Init PROVE TypeOK
  OBVIOUS
<1>1. stored \in Links
  BY LinksThatAre DEF Init
<1>2. Blank \in DropboxAccounts
  BY DEF Blank, DropboxAccounts, Emails, Tokens
<1>3. m \in DropboxAccounts
  BY <1>1, <1>2, LoadedAccount DEF Init
<1>4. /\ opened \in Seq(Keys) /\ Len(opened) = 0
      /\ calls \in Seq(Calls) /\ Len(calls) = 0
  BY EmptySeq DEF Init
<1>5. /\ page \in {"linked", "connect"} /\ entries \in Nat
      /\ placing \in [{"widget", "other"} -> {None} \cup Placings]
      /\ redeemed \subseteq Grants /\ meddling \in 0..MaxEvents
  BY DEF Init, PageFor
<1>6. checked \in BOOLEAN /\ elsewhere \in BOOLEAN /\ raced \in BOOLEAN
  BY DEF Init
<1> QED BY <1>1, <1>3, <1>4, <1>5, <1>6 DEF TypeOK, Calls, Placings, DropboxAccounts

\* What the first half of setShown() keeps in mind.
LEMMA SetShownType ==
    ASSUME TypeOK, NEW p \in {"widget", "other"}, NEW shown \in BOOLEAN,
           NEW next \in {"linked", "connect", "stay"}, SetShown(p, shown, next)
    PROVE  placing' \in [{"widget", "other"} -> {None} \cup Placings]
<1>1. [want |-> shown, found |-> entries > 0, next |-> next] \in Placings
  BY DEF TypeOK, Placings
<1> QED BY <1>1 DEF TypeOK, SetShown, Placings

\* Every action keeps the types.
LEMMA TypeStep == TypeOK /\ [Next]_vars => TypeOK'
<1> SUFFICES ASSUME TypeOK, [Next]_vars PROVE TypeOK'
  OBVIOUS
<1>a. /\ calls \in Seq(Calls) /\ Len(calls) <= MaxDepth /\ m \in DropboxAccounts
      /\ placing \in [{"widget", "other"} -> {None} \cup Placings]
  BY DEF TypeOK, Calls, Placings, DropboxAccounts
<1>b. Disturbed(calls) \in Seq(Calls) /\ Len(Disturbed(calls)) <= MaxDepth
  BY <1>a, DisturbedCalls
<1>c. calls # <<>> =>
        /\ Outer \in Seq(Calls) /\ Len(Outer) < MaxDepth /\ Innermost \in Calls
        /\ Disturbed(Outer) \in Seq(Calls) /\ Len(Disturbed(Outer)) < MaxDepth
  <2> SUFFICES ASSUME calls # <<>>
               PROVE  /\ Outer \in Seq(Calls) /\ Len(Outer) < MaxDepth /\ Innermost \in Calls
                      /\ Disturbed(Outer) \in Seq(Calls) /\ Len(Disturbed(Outer)) < MaxDepth
    OBVIOUS
  <2>1. /\ Outer \in Seq(Calls) /\ Len(Outer) < MaxDepth /\ Innermost \in Calls
    BY OuterCalls
  <2> QED BY <2>1, DisturbedCalls
<1>d. ReadBack \in BOOLEAN
  BY DEF ReadBack
<1>1. CASE Toggle
  <2>1. placing' \in [{"widget", "other"} -> {None} \cup Placings]
    BY <1>1, SetShownType DEF Toggle
  <2>2. checked' \in BOOLEAN
    BY <1>1, Zenon DEF Toggle
  <2> QED BY <1>1, <2>1, <2>2 DEF Toggle, TypeOK, Placings, history
<1>2. CASE Refresh
  <2>1. m' \in DropboxAccounts
    BY <1>2, <1>a, LoadedAccount DEF Refresh, TypeOK
  <2>2. checked' \in BOOLEAN /\ elsewhere' \in BOOLEAN
    BY <1>2, <1>d, Zenon DEF Refresh, ShowLinked, TypeOK
  <2>3. page' \in {"linked", "connect"}
    BY <1>2 DEF Refresh, ShowLinked
  <2> QED BY <1>2, <1>b, <2>1, <2>2, <2>3 DEF Refresh, TypeOK, DropboxAccounts, Calls
<1>3. CASE OpenAuthorizationPage
  <2>1. PICK key \in Keys : m' = [m EXCEPT !.key = key] /\ opened' = Append(opened, key)
    BY <1>3 DEF OpenAuthorizationPage
  <2>2. m' \in DropboxAccounts
    BY <1>a, <2>1 DEF DropboxAccounts
  <2>3. opened' \in Seq(Keys) /\ Len(opened') <= MaxPages
    BY <1>3, <2>1, AppendProperties DEF OpenAuthorizationPage, TypeOK
  <2> QED BY <1>3, <1>b, <2>2, <2>3 DEF OpenAuthorizationPage, TypeOK, DropboxAccounts,
                                      Calls, history
<1>4. CASE FinishAuthorization
  <2>1. PICK code \in Codes :
          calls' = Append(calls, [at |-> "redeem", code |-> code, key |-> m.key,
                                  verifier |-> Len(opened), bearer |-> None,
                                  clean |-> TRUE])
    BY <1>4 DEF FinishAuthorization
  <2>2. /\ code \in Grants /\ m.key \in Keys /\ Len(opened) \in 0..MaxPages
    BY <1>a DEF Codes, TypeOK, DropboxAccounts
  <2>3. [at |-> "redeem", code |-> code, key |-> m.key, verifier |-> Len(opened),
         bearer |-> None, clean |-> TRUE] \in Calls
    BY <2>2 DEF Calls, Tokens
  <2>4. calls' \in Seq(Calls) /\ Len(calls') <= MaxDepth
    BY <1>4, <1>a, <2>1, <2>3, AppendProperties DEF FinishAuthorization
  <2> QED BY <1>4, <2>4 DEF FinishAuthorization, TypeOK, Calls, history
<1>5. CASE Redeem
  <2>1. calls # <<>> /\ Innermost \in Calls /\ redeemed' \subseteq Grants
    BY <1>5, <1>c DEF Redeem, Waiting, TypeOK, Calls
  <2>2. m' \in DropboxAccounts
    BY <1>5, <1>a, <2>1 DEF Redeem, RedeemedGrant, DropboxAccounts, Calls, Tokens
  <2>3. calls' \in Seq(Calls) /\ Len(calls') <= MaxDepth
    <3>1. CASE calls' = Disturbed(Outer)
      BY <1>c, <2>1, <3>1
    <3>2. CASE calls' = Append(Disturbed(Outer), [Innermost EXCEPT
                       !.at = "info",
                       !.bearer = IF m'.access = None THEN Innermost.code ELSE m'.access])
      <4>1. [Innermost EXCEPT !.at = "info",
               !.bearer = IF m'.access = None THEN Innermost.code ELSE m'.access] \in Calls
        BY <2>1, <2>2 DEF Calls, DropboxAccounts, Tokens
      <4> QED BY <1>c, <2>1, <3>2, <4>1, AppendProperties
    <3> QED BY <1>5, <3>1, <3>2, Zenon DEF Redeem
  <2> QED BY <1>5, <2>1, <2>2, <2>3 DEF Redeem, TypeOK, DropboxAccounts, Calls, history
<1>6. CASE GiveUp
  BY <1>6, <1>c DEF GiveUp, TypeOK, Calls, history
<1>7. CASE Save
  <2>1. calls # <<>> /\ Innermost \in Calls
    BY <1>7, <1>c DEF Save, Waiting
  <2>2. PICK bearer \in Bearers : m' \in Identified(bearer)
    BY <1>7 DEF Save
  <2>3. bearer \in Grants
    BY <1>a, <2>1, <2>2 DEF Bearers, DropboxAccounts, Calls, Tokens
  <2>4. m' \in DropboxAccounts
    BY <1>a, <2>2, <2>3 DEF Identified, DropboxAccounts, Grants, Emails
  <2>5. stored' \in Links
    <3>1. \A token \in Tokens : StoredWith(token) \in Links
      BY <2>4 DEF StoredWith, Links, DropboxAccounts
    <3>2. m'.refresh \in Tokens /\ stored.token \in Tokens /\ stored \in Links
          /\ None \in Tokens
      BY <2>4 DEF TypeOK, Links, DropboxAccounts, Tokens
    <3>3. stored' \in {stored, StoredWith(m'.refresh), StoredWith(stored.token),
                      StoredWith(None)}
      BY <1>7 DEF Save
    <3> QED BY <3>1, <3>2, <3>3
  <2>6. placing' \in [{"widget", "other"} -> {None} \cup Placings]
    <3>1. SetShown("widget", TRUE, "linked") \/ placing' = placing
      BY <1>7 DEF Save
    <3> QED BY <1>a, <3>1, SetShownType
  <2> QED BY <1>7, <1>c, <2>1, <2>4, <2>5, <2>6 DEF Save, TypeOK, DropboxAccounts,
                                                  Calls, Placings, history
<1>8. CASE Unlink
  <2>1. placing' \in [{"widget", "other"} -> {None} \cup Placings]
    BY <1>8, SetShownType DEF Unlink
  <2>2. m' \in DropboxAccounts
    BY <1>8 DEF Unlink, Blank, DropboxAccounts, Emails, Tokens
  <2>3. stored' \in Links
    BY <1>8, LinksThatAre DEF Unlink, TypeOK, Links
  <2> QED BY <1>8, <1>b, <2>1, <2>2, <2>3 DEF Unlink, TypeOK, DropboxAccounts, Calls, Placings,
                                      history
<1>9. ASSUME NEW p \in {"widget", "other"}, Place(p) PROVE TypeOK'
  <2>1. placing[p] \in Placings
    BY <1>9, <1>a DEF Place
  <2>2. entries' \in Nat
    BY <1>9, <2>1 DEF Place, EntriesAfter, TypeOK
  <2>3. placing' \in [{"widget", "other"} -> {None} \cup Placings]
    BY <1>9, <1>a DEF Place
  <2>4. raced' \in BOOLEAN
    BY <1>9, Zenon DEF Place, TypeOK
  <2>5. page' \in {"linked", "connect", "authorize"}
    BY <1>9, <2>1 DEF Place, Placings, ShowLinked, TypeOK
  <2>6. checked' \in BOOLEAN /\ elsewhere' \in BOOLEAN
    <3>1. CASE placing[p].next = "linked"
      BY <1>9, <1>d, <3>1, Zenon DEF Place, ShowLinked
    <3>2. CASE placing[p].next = "connect"
      <4>1. UNCHANGED <<checked, elsewhere>>
        BY <1>9, <3>2 DEF Place
      <4> QED BY <4>1, Zenon DEF TypeOK
    <3>3. CASE placing[p].next = "stay"
      <4>1. /\ checked' = checked
            /\ elsewhere' = (elsewhere \/ (p = "other" /\ entries' # entries))
        BY <1>9, <3>3 DEF Place
      <4> QED BY <4>1, Zenon DEF TypeOK
    <3> QED BY <2>1, <3>1, <3>2, <3>3 DEF Placings
  <2> QED BY <1>9, <2>2, <2>3, <2>4, <2>5, <2>6 DEF Place, TypeOK, Placings
<1>10. CASE OtherPlaces
  <2>1. placing' \in [{"widget", "other"} -> {None} \cup Placings]
    BY <1>10, SetShownType DEF OtherPlaces
  <2>2. meddling' \in 0..MaxEvents
    BY <1>10 DEF OtherPlaces, FewEvents, TypeOK
  <2> QED BY <1>10, <2>1, <2>2 DEF OtherPlaces, TypeOK, Placings
<1>11. CASE OtherLinks
  <2>1. stored' \in Links
    BY <1>11 DEF OtherLinks, TypeOK, Links, Tokens
  <2>2. meddling' \in 0..MaxEvents
    BY <1>11 DEF OtherLinks, FewEvents, TypeOK
  <2> QED BY <1>11, <2>1, <2>2 DEF OtherLinks, TypeOK
<1>12. CASE UNCHANGED vars
  BY <1>12 DEF vars, history, TypeOK
<1> QED BY <1>1, <1>2, <1>3, <1>4, <1>5, <1>6, <1>7, <1>8, <1>9, <1>10, <1>11, <1>12
        DEF Next, Widget

\* Every variable keeps its type, and the calls and pages their bounds.
THEOREM TypeCorrect == Spec => []TypeOK
BY TypeInit, TypeStep, PTL DEF Spec

-----------------------------------------------------------------------------
(* The calls of the widget. *)

\* A call that nobody disturbed has the account as it left it: with the key it
\* asked with and, once the code was redeemed, with the tokens for that code,
\* which it also bears.
CallsFit ==
    \A i \in 1..Len(calls) :
        calls[i].clean =>
            /\ calls[i].key = m.key
            /\ calls[i].at = "info" =>
                  /\ calls[i].key = calls[i].code.key /\ calls[i].bearer = calls[i].code
                  /\ m.refresh = calls[i].code /\ m.access = calls[i].code

FlowInv == TypeOK /\ CodeFitsAccount /\ CallsFit

\* A step that keeps the account and adds no call keeps what calls rely on, and
\* so does one after which no call is clean.
LEMMA FewerCalls ==
    ASSUME TypeOK, CallsFit, m' = m,
           calls' = calls \/ (calls # <<>> /\ calls' = Outer)
    PROVE  CallsFit'
<1>1. CASE calls' = calls
  BY <1>1 DEF CallsFit
<1>2. CASE calls # <<>> /\ calls' = Outer
  <2>1. /\ Len(calls) \in Nat /\ Len(Outer) = Len(calls) - 1
        /\ \A i \in 1..Len(Outer) : Outer[i] = calls[i]
    BY <1>2, OuterCalls
  <2>2. \A i \in 1..Len(calls') : i \in 1..Len(calls) /\ calls'[i] = calls[i]
    BY <1>2, <2>1
  <2> QED BY <2>2 DEF CallsFit
<1> QED BY <1>1, <1>2

LEMMA NoneClean ==
    ASSUME NEW under \in Seq(Calls), calls' = Disturbed(under)
    PROVE  CallsFit'
BY DisturbedCalls DEF CallsFit

LEMMA FlowInit == Init => FlowInv
<1> SUFFICES ASSUME Init PROVE FlowInv
  OBVIOUS
<1>1. CodeFitsAccount
  BY DEF Init, PageFor, CodeFitsAccount
<1>2. CallsFit
  BY DEF Init, CallsFit
<1> QED BY <1>1, <1>2, TypeInit DEF FlowInv

\* Every action keeps the page and the calls in step with the account.
LEMMA FlowStep == FlowInv /\ [Next]_vars => FlowInv'
<1> SUFFICES ASSUME FlowInv, [Next]_vars PROVE FlowInv'
  OBVIOUS
<1>a. TypeOK /\ CodeFitsAccount /\ CallsFit /\ TypeOK'
  BY TypeStep DEF FlowInv
<1>b. calls \in Seq(Calls) /\ m \in DropboxAccounts /\ opened \in Seq(Keys)
  BY <1>a DEF TypeOK, Calls, DropboxAccounts
<1>c. calls # <<>> =>
        /\ Outer \in Seq(Calls) /\ Innermost \in Calls
        /\ Innermost.clean => calls[Len(calls)].clean /\ Len(calls) \in 1..Len(calls)
  BY <1>a, OuterCalls DEF Innermost
<1>1. CASE Toggle
  <2>1. CodeFitsAccount'
    BY <1>1, <1>a DEF Toggle, CodeFitsAccount
  <2>2. CallsFit'
    BY <1>1, <1>a, FewerCalls DEF Toggle
  <2> QED BY <1>a, <2>1, <2>2 DEF FlowInv
<1>2. CASE Refresh
  <2>1. CodeFitsAccount'
    BY <1>2 DEF Refresh, ShowLinked, CodeFitsAccount
  <2>2. CallsFit'
    BY <1>2, <1>b, NoneClean DEF Refresh
  <2> QED BY <1>a, <2>1, <2>2 DEF FlowInv
<1>3. CASE OpenAuthorizationPage
  <2>1. PICK key \in Keys : m' = [m EXCEPT !.key = key] /\ opened' = Append(opened, key)
    BY <1>3 DEF OpenAuthorizationPage
  <2>2. opened' # <<>> /\ opened'[Len(opened')] = key
    BY <1>b, <2>1, AppendProperties
  <2>3. m'.key = key
    BY <1>b, <2>1 DEF DropboxAccounts
  <2>4. CodeFitsAccount'
    BY <2>2, <2>3 DEF CodeFitsAccount
  <2>5. CallsFit'
    BY <1>3, <1>b, NoneClean DEF OpenAuthorizationPage
  <2> QED BY <1>a, <2>4, <2>5 DEF FlowInv
<1>4. CASE FinishAuthorization
  <2>1. PICK code \in Codes :
          calls' = Append(calls, [at |-> "redeem", code |-> code, key |-> m.key,
                                  verifier |-> Len(opened), bearer |-> None,
                                  clean |-> TRUE])
    BY <1>4 DEF FinishAuthorization
  <2> DEFINE call == [at |-> "redeem", code |-> code, key |-> m.key,
                      verifier |-> Len(opened), bearer |-> None, clean |-> TRUE]
  <2>2. call \in Calls
    BY <1>a, <1>b DEF Codes, TypeOK, DropboxAccounts, Calls, Tokens
  <2>3. call.key = m.key /\ call.at = "redeem"
    OBVIOUS
  <2> HIDE DEF call
  <2>4. /\ Len(calls') = Len(calls) + 1 /\ Len(calls) \in Nat
        /\ \A i \in 1..Len(calls) : calls'[i] = calls[i]
        /\ calls'[Len(calls) + 1] = call
    BY <1>b, <2>1, <2>2, AppendProperties, LenProperties DEF call
  <2>5. m' = m
    BY <1>4 DEF FinishAuthorization
  <2>6. CallsFit'
    <3> SUFFICES ASSUME NEW i \in 1..Len(calls'), calls'[i].clean
                 PROVE  /\ calls'[i].key = m.key
                        /\ calls'[i].at = "info" =>
                              /\ calls'[i].key = calls'[i].code.key
                              /\ calls'[i].bearer = calls'[i].code
                              /\ m.refresh = calls'[i].code /\ m.access = calls'[i].code
      BY <2>5 DEF CallsFit
    <3>1. CASE i \in 1..Len(calls)
      BY <1>a, <2>4, <3>1 DEF CallsFit
    <3>2. CASE i = Len(calls) + 1
      BY <2>3, <2>4, <3>2
    <3> QED BY <2>4, <3>1, <3>2
  <2>7. CodeFitsAccount'
    BY <1>4, <1>a DEF FinishAuthorization, CodeFitsAccount
  <2> QED BY <1>a, <2>6, <2>7 DEF FlowInv
<1>5. CASE Redeem
  <2>1. calls # <<>> /\ Innermost \in Calls /\ Innermost.key = Innermost.code.key
    BY <1>5, <1>c DEF Redeem, Waiting
  <2>2. m'.key = m.key
    BY <1>5, <1>b DEF Redeem, RedeemedGrant, DropboxAccounts
  <2>3. CodeFitsAccount'
    BY <1>5, <1>a, <2>2 DEF Redeem, CodeFitsAccount
  <2>4. Outer \in Seq(Calls)
    BY <1>c, <2>1
  <2>5. CASE calls' = Disturbed(Outer)
    BY <1>a, <2>3, <2>4, <2>5, NoneClean DEF FlowInv
  <2>6. CASE /\ m' = RedeemedGrant(Innermost.code)
             /\ calls' = Append(Disturbed(Outer), [Innermost EXCEPT
                    !.at = "info",
                    !.bearer = IF m'.access = None THEN Innermost.code ELSE m'.access])
    <3> DEFINE call == [Innermost EXCEPT !.at = "info",
                  !.bearer = IF m'.access = None THEN Innermost.code ELSE m'.access]
    <3>1. m'.refresh = Innermost.code /\ m'.access = Innermost.code
      BY <1>b, <2>6 DEF RedeemedGrant, DropboxAccounts
    <3>2. /\ call \in Calls /\ call.key = Innermost.key /\ call.code = Innermost.code
          /\ call.bearer = Innermost.code /\ call.clean = Innermost.clean
      BY <2>1, <3>1 DEF Calls, Tokens
    <3> HIDE DEF call
    <3>3. /\ Disturbed(Outer) \in Seq(Calls)
          /\ \A i \in 1..Len(Disturbed(Outer)) : ~Disturbed(Outer)[i].clean
      BY <2>4, DisturbedCalls
    <3>4. /\ Len(calls') = Len(Disturbed(Outer)) + 1 /\ Len(Disturbed(Outer)) \in Nat
          /\ \A i \in 1..Len(Disturbed(Outer)) : calls'[i] = Disturbed(Outer)[i]
          /\ calls'[Len(Disturbed(Outer)) + 1] = call
      BY <2>6, <3>2, <3>3, AppendProperties, LenProperties DEF call
    <3>5. Innermost.clean => Innermost.key = m.key
      BY <1>a, <1>c, <2>1 DEF CallsFit, Innermost
    <3>6. CallsFit'
      <4> SUFFICES ASSUME NEW i \in 1..Len(calls'), calls'[i].clean
                   PROVE  /\ calls'[i].key = m'.key
                          /\ calls'[i].key = calls'[i].code.key
                          /\ calls'[i].bearer = calls'[i].code
                          /\ m'.refresh = calls'[i].code /\ m'.access = calls'[i].code
        BY DEF CallsFit
      <4>1. i = Len(Disturbed(Outer)) + 1
        BY <3>3, <3>4
      <4>2. calls'[i] = call
        BY <3>4, <4>1
      <4> QED BY <2>1, <2>2, <3>1, <3>2, <3>5, <4>2
    <3> QED BY <1>a, <2>3, <3>6 DEF FlowInv
  <2> QED BY <1>5, <2>5, <2>6, Zenon DEF Redeem
<1>6. CASE GiveUp
  <2>1. CodeFitsAccount'
    BY <1>6, <1>a DEF GiveUp, CodeFitsAccount
  <2>2. CallsFit'
    BY <1>6, <1>a, FewerCalls DEF GiveUp
  <2> QED BY <1>a, <2>1, <2>2 DEF FlowInv
<1>7. CASE Save
  <2>1. calls' = Disturbed(Outer) /\ calls # <<>>
    BY <1>7 DEF Save, Waiting
  <2>2. m'.key = m.key
    BY <1>7, <1>b DEF Save, Identified, DropboxAccounts
  <2>3. CodeFitsAccount'
    BY <1>7, <1>a, <2>2 DEF Save, CodeFitsAccount
  <2>4. CallsFit'
    BY <1>c, <2>1, NoneClean
  <2> QED BY <1>a, <2>3, <2>4 DEF FlowInv
<1>8. CASE Unlink
  <2>1. CodeFitsAccount'
    BY <1>8 DEF Unlink, CodeFitsAccount
  <2>2. CallsFit'
    BY <1>8, <1>b, NoneClean DEF Unlink
  <2> QED BY <1>a, <2>1, <2>2 DEF FlowInv
<1>9. ASSUME NEW p \in {"widget", "other"}, Place(p) PROVE FlowInv'
  <2>1. UNCHANGED <<m, opened, calls>>
    BY <1>9 DEF Place
  <2>2. page' \in {"linked", "connect", page}
    BY <1>9, <1>a DEF Place, ShowLinked, TypeOK
  <2>3. CodeFitsAccount'
    BY <1>a, <2>1, <2>2 DEF CodeFitsAccount
  <2> QED BY <1>a, <2>1, <2>3, FewerCalls DEF FlowInv
<1>10. CASE OtherPlaces \/ OtherLinks \/ UNCHANGED vars
  <2>1. UNCHANGED <<m, opened, calls, page>>
    BY <1>10 DEF OtherPlaces, OtherLinks, vars
  <2>2. CodeFitsAccount'
    BY <1>a, <2>1 DEF CodeFitsAccount
  <2> QED BY <1>a, <2>1, <2>2, FewerCalls DEF FlowInv
<1> QED BY <1>1, <1>2, <1>3, <1>4, <1>5, <1>6, <1>7, <1>8, <1>9, <1>10
        DEF Next, Widget

\* The authorize page always waits for a code of the last page that was opened,
\* whatever ran in the nested loops of the calls before.
THEOREM PageFits == Spec => []CodeFitsAccount
<1>1. FlowInv => CodeFitsAccount
  BY DEF FlowInv
<1> QED BY <1>1, FlowInit, FlowStep, PTL DEF Spec

\* The new token that Save stores for a call that nobody disturbed is that of its
\* code, and comes with the key and the owner of it.
LEMMA SaveStep ==
    FlowInv /\ Save /\ NewToken /\ Innermost.clean =>
        Whole(stored') /\ stored'.token = Innermost.code
<1> SUFFICES ASSUME FlowInv, Save, NewToken, Innermost.clean
             PROVE  Whole(stored') /\ stored'.token = Innermost.code
  OBVIOUS
<1>1. /\ calls # <<>> /\ Innermost.at = "info" /\ Innermost \in Calls
      /\ Len(calls) \in 1..Len(calls)
  BY OuterCalls DEF FlowInv, Save, Waiting
<1>2. /\ m.key = Innermost.code.key /\ Innermost.bearer = Innermost.code
      /\ m.refresh = Innermost.code /\ m.access = Innermost.code
  BY <1>1 DEF FlowInv, CallsFit, Innermost
<1>3. PICK bearer \in Bearers : m' \in Identified(bearer)
  BY DEF Save
<1>4. stored' = StoredWith(m'.refresh)
  <2>1. stored'.token \notin {stored.token, None}
    BY DEF NewToken
  <2>2. StoredWith(stored.token).token = stored.token /\ StoredWith(None).token = None
    BY DEF StoredWith
  <2> QED BY <2>1, <2>2 DEF Save
<1>5. bearer = Innermost.code /\ bearer # None
  BY <1>2, <1>3 DEF Bearers
<1>6. /\ m'.key = m.key /\ m'.email \in {bearer.acct, None}
      /\ m'.refresh = m.refresh
  BY <1>3 DEF Identified, FlowInv, TypeOK
<1>7. /\ stored'.key = m.key /\ stored'.email \in {bearer.acct, None}
      /\ stored'.token = m.refresh
  BY <1>4, <1>6 DEF StoredWith
<1> QED BY <1>2, <1>5, <1>7 DEF Whole

\* The token that a call which nobody disturbed stores is that of the code it was
\* given, under the key it was asked with, and the email that is stored with it is
\* its owner's or missing, for any nesting of calls and any accounts and keys.
THEOREM LinkIsWhole == Spec => CleanLinkIsWhole
<1>1. FlowInv /\ [Next]_vars =>
        [NewToken /\ Innermost.clean =>
            Whole(stored') /\ stored'.token = Innermost.code]_vars
  <2> SUFFICES ASSUME FlowInv, Next, NewToken, Innermost.clean
               PROVE  Whole(stored') /\ stored'.token = Innermost.code
    BY DEF vars, NewToken
  <2>1. ~Unlink
    <3>1. NoLink.token = None /\ [NoLink EXCEPT !.token = stored.token].token = stored.token
      BY DEF NoLink
    <3> QED BY <3>1, Zenon DEF Unlink, NewToken
  <2>2. Save
    BY <2>1 DEF Next, Widget, Toggle, Refresh, OpenAuthorizationPage, FinishAuthorization,
           Redeem, GiveUp, Place, OtherPlaces, OtherLinks, NewToken
  <2> QED BY <2>2, SaveStep
<1> QED BY <1>1, FlowInit, FlowStep, PTL DEF Spec, CleanLinkIsWhole

-----------------------------------------------------------------------------
(* The sidebar. *)

\* As long as no two calls of setShown() have overlapped, one that is under way
\* knows the entry as it is.
Looked ==
    ~raced => \A p \in {"widget", "other"} :
                 placing[p] # None => placing[p].found = (entries > 0)

\* The widget changes the sidebar on behalf of the checkbox, or turns to another
\* page; another process does not turn its pages.
Ticked ==
    /\ placing["widget"] # None /\ placing["widget"].next = "stay" =>
          placing["widget"].want = checked
    /\ placing["other"] # None => placing["other"].next = "stay"

SidebarInv == TypeOK /\ SidebarOnce /\ Looked /\ Ticked /\ CheckboxTellsSidebar

LEMMA SidebarInit == Init => SidebarInv
<1> SUFFICES ASSUME Init PROVE SidebarInv
  OBVIOUS
<1>1. SidebarOnce /\ Looked /\ Ticked
  BY DEF Init, SidebarOnce, Looked, Ticked
<1>2. CheckboxTellsSidebar
  BY DEF Init, CheckboxTellsSidebar
<1> QED BY <1>1, <1>2, TypeInit DEF SidebarInv

\* The first half of setShown() sees the entry as it is.
LEMMA LookStep ==
    ASSUME SidebarInv, NEW p \in {"widget", "other"}, NEW shown \in BOOLEAN,
           NEW next \in {"linked", "connect", "stay"}, SetShown(p, shown, next),
           UNCHANGED <<entries, raced>>
    PROVE  /\ SidebarOnce' /\ Looked'
           /\ placing'[p] # None
           /\ placing'[p].want = shown /\ placing'[p].next = next
           /\ \A q \in {"widget", "other"} : q # p => placing'[q] = placing[q]
<1> DEFINE act == [want |-> shown, found |-> entries > 0, next |-> next]
<1>1. \A q \in {"widget", "other"} : placing'[q] = IF q = p THEN act ELSE placing[q]
  BY DEF SetShown, SidebarInv, TypeOK
<1>2. act \in Placings /\ act # None
  <2>1. act \in Placings
    BY DEF Placings
  <2> QED BY <2>1, NoneAssumption, Zenon DEF Placings
<1>3. act.want = shown /\ act.found = (entries > 0) /\ act.next = next
  OBVIOUS
<1> HIDE DEF act
<1>4. SidebarOnce'
  BY DEF SidebarInv, SidebarOnce
<1>5. Looked'
  BY <1>1, <1>3 DEF SidebarInv, Looked
<1> QED BY <1>1, <1>2, <1>3, <1>4, <1>5

\* An entry is added only where there is none, and removed where there is one, if
\* what was found is so.
LEMMA EntriesAfterLook ==
    ASSUME NEW act \in Placings, entries \in Nat, entries <= 1, act.found = (entries > 0)
    PROVE  /\ EntriesAfter(act) \in 0..1
           /\ act.want = (EntriesAfter(act) > 0)
<1>1. act.want \in BOOLEAN /\ act.found \in BOOLEAN
  BY DEF Placings
<1>2. CASE entries = 0
  <2>1. ~(entries > 0)
    BY <1>2
  <2>2. act.found = FALSE
    BY <1>1, <2>1, Zenon
  <2> QED BY <1>1, <1>2, <2>2 DEF EntriesAfter
<1>3. CASE entries = 1
  <2>1. entries > 0
    BY <1>3
  <2>2. act.found = TRUE
    BY <1>1, <2>1, Zenon
  <2> QED BY <1>1, <1>3, <2>2 DEF EntriesAfter
<1> QED BY <1>2, <1>3

\* Every action keeps the sidebar and the checkbox in step.
LEMMA SidebarStep == SidebarInv /\ [Next]_vars => SidebarInv'
<1> SUFFICES ASSUME SidebarInv, [Next]_vars PROVE SidebarInv'
  OBVIOUS
<1>a. /\ TypeOK /\ SidebarOnce /\ Looked /\ Ticked /\ CheckboxTellsSidebar /\ TypeOK'
      /\ placing \in [{"widget", "other"} -> {None} \cup Placings] /\ entries \in Nat
  BY TypeStep DEF SidebarInv, TypeOK, Placings
<1>1. CASE Toggle
  <2>1. /\ SetShown("widget", ~checked, "stay") /\ checked' = ~checked
        /\ UNCHANGED <<entries, raced>>
    BY <1>1 DEF Toggle, history
  <2>2. (~checked) \in BOOLEAN
    OBVIOUS
  <2>3. /\ SidebarOnce' /\ Looked' /\ placing'["widget"] # None
        /\ placing'["widget"].want = ~checked
        /\ placing'["other"] = placing["other"]
    BY <2>1, <2>2, LookStep
  <2>4. Ticked' /\ CheckboxTellsSidebar'
    BY <1>a, <2>1, <2>3 DEF Ticked, CheckboxTellsSidebar, Listening
  <2> QED BY <1>a, <2>3, <2>4 DEF SidebarInv
<1>2. CASE Refresh
  <2>1. placing' = placing /\ entries' = entries /\ raced' = raced /\ placing["widget"] = None
    BY <1>2 DEF Refresh, Listening
  <2>2. SidebarOnce' /\ Looked' /\ Ticked'
    BY <1>a, <2>1 DEF SidebarOnce, Looked, Ticked
  <2>3. CheckboxTellsSidebar'
    BY <1>2 DEF Refresh, ShowLinked, ReadBack, CheckboxTellsSidebar
  <2> QED BY <1>a, <2>2, <2>3 DEF SidebarInv
<1>3. CASE \/ OpenAuthorizationPage \/ FinishAuthorization \/ Redeem \/ GiveUp
           \/ OtherLinks \/ UNCHANGED vars
  <2>1. UNCHANGED <<placing, entries, checked, raced, elsewhere>>
    BY <1>3 DEF OpenAuthorizationPage, FinishAuthorization, Redeem, GiveUp, OtherLinks,
                vars, history
  <2>2. page' \in {page, "authorize"}
    BY <1>3 DEF OpenAuthorizationPage, FinishAuthorization, Redeem, GiveUp, OtherLinks,
                vars
  <2>3. SidebarOnce' /\ Looked' /\ Ticked'
    BY <1>a, <2>1 DEF SidebarOnce, Looked, Ticked
  <2>4. CheckboxTellsSidebar'
    BY <1>a, <2>1, <2>2 DEF CheckboxTellsSidebar, Listening
  <2> QED BY <1>a, <2>3, <2>4 DEF SidebarInv
<1>4. CASE Save
  <2>1. /\ UNCHANGED <<entries, page, checked, raced, elsewhere>>
        /\ SetShown("widget", TRUE, "linked") \/ placing' = placing
    BY <1>4 DEF Save, history
  <2>2. CASE placing' = placing
    BY <1>a, <2>1, <2>2 DEF SidebarInv, SidebarOnce, Looked, Ticked, CheckboxTellsSidebar,
                            Listening
  <2>3. CASE SetShown("widget", TRUE, "linked")
    <3>1. /\ SidebarOnce' /\ Looked' /\ placing'["widget"] # None
          /\ placing'["widget"].next = "linked" /\ placing'["other"] = placing["other"]
      BY <2>1, <2>3, LookStep
    <3>2. Ticked' /\ CheckboxTellsSidebar'
      BY <1>a, <3>1 DEF Ticked, CheckboxTellsSidebar, Listening
    <3> QED BY <1>a, <3>1, <3>2 DEF SidebarInv
  <2> QED BY <2>1, <2>2, <2>3
<1>5. CASE Unlink
  <2>1. SetShown("widget", FALSE, "connect") /\ UNCHANGED <<entries, raced>>
    BY <1>5 DEF Unlink, history
  <2>2. /\ SidebarOnce' /\ Looked' /\ placing'["widget"] # None
        /\ placing'["widget"].next = "connect" /\ placing'["other"] = placing["other"]
    BY <2>1, LookStep
  <2>3. Ticked' /\ CheckboxTellsSidebar'
    BY <1>a, <2>2 DEF Ticked, CheckboxTellsSidebar, Listening
  <2> QED BY <1>a, <2>2, <2>3 DEF SidebarInv
<1>6. CASE OtherPlaces
  <2>1. PICK shown \in BOOLEAN : SetShown("other", shown, "stay")
    BY <1>6 DEF OtherPlaces
  <2>2. UNCHANGED <<entries, page, checked, raced, elsewhere>>
    BY <1>6 DEF OtherPlaces
  <2>3. /\ SidebarOnce' /\ Looked' /\ placing'["other"].next = "stay"
        /\ placing'["widget"] = placing["widget"]
    BY <2>1, <2>2, LookStep
  <2>4. Ticked' /\ CheckboxTellsSidebar'
    BY <1>a, <2>2, <2>3 DEF Ticked, CheckboxTellsSidebar, Listening
  <2> QED BY <1>a, <2>3, <2>4 DEF SidebarInv
<1>7. ASSUME NEW p \in {"widget", "other"}, Place(p) PROVE SidebarInv'
  <2>1. /\ placing[p] # None /\ placing[p] \in Placings
        /\ entries' = EntriesAfter(placing[p])
        /\ raced' = (raced \/ Overlapped(p))
        /\ \A q \in {"widget", "other"} : placing'[q] = IF q = p THEN None ELSE placing[q]
    BY <1>7, <1>a DEF Place
  <2>2. ASSUME ~raced'
        PROVE  /\ ~raced /\ \A q \in {"widget", "other"} : placing'[q] = None
               /\ entries' \in 0..1 /\ placing[p].want = (entries' > 0)
    <3>1. ~raced /\ ~Overlapped(p)
      BY <2>1, <2>2
    <3>2. \A q \in {"widget", "other"} : placing'[q] = None
      BY <1>a, <2>1, <3>1 DEF Overlapped
    <3>3. entries <= 1 /\ placing[p].found = (entries > 0)
      BY <1>a, <2>1, <3>1 DEF SidebarOnce, Looked
    <3>4. entries' \in 0..1 /\ placing[p].want = (entries' > 0)
      BY <1>a, <2>1, <3>3, EntriesAfterLook
    <3> QED BY <3>1, <3>2, <3>4
  <2>3. SidebarOnce' /\ Looked'
    BY <2>2 DEF SidebarOnce, Looked
  <2>4. CASE p = "widget"
    <3>1. placing'["widget"] = None /\ placing'["other"] = placing["other"]
      BY <2>1, <2>4
    <3>2. Ticked'
      BY <1>a, <3>1 DEF Ticked
    <3>3. CheckboxTellsSidebar'
      <4>1. CASE placing[p].next = "linked"
        BY <1>7, <4>1 DEF Place, ShowLinked, ReadBack, CheckboxTellsSidebar
      <4>2. CASE placing[p].next = "connect"
        BY <1>7, <4>2 DEF Place, CheckboxTellsSidebar
      <4>3. CASE placing[p].next = "stay"
        <5>1. checked' = checked /\ placing[p].want = checked
          BY <1>7, <1>a, <2>1, <2>4, <4>3 DEF Place, Ticked
        <5> QED BY <2>2, <5>1 DEF CheckboxTellsSidebar
      <4> QED BY <2>1, <4>1, <4>2, <4>3 DEF Placings
    <3> QED BY <1>a, <2>3, <3>2, <3>3 DEF SidebarInv
  <2>5. CASE p = "other"
    <3>1. placing'["other"] = None /\ placing'["widget"] = placing["widget"]
      BY <2>1, <2>5
    <3>2. /\ UNCHANGED <<page, checked>>
          /\ elsewhere' = (elsewhere \/ (p = "other" /\ entries' # entries))
      BY <1>7, <1>a, <2>1, <2>5 DEF Place, Ticked
    <3>3. Ticked'
      BY <1>a, <3>1, <3>2 DEF Ticked
    <3>4. CheckboxTellsSidebar'
      <4> SUFFICES ASSUME page = "linked", Listening', ~elsewhere', ~raced'
                   PROVE  checked = (entries' > 0)
        BY <3>2 DEF CheckboxTellsSidebar
      <4>1. ~elsewhere /\ entries' = entries /\ ~raced /\ Listening
        BY <2>2, <2>5, <3>1, <3>2 DEF Listening
      <4> QED BY <1>a, <4>1 DEF CheckboxTellsSidebar
    <3> QED BY <1>a, <2>3, <3>3, <3>4 DEF SidebarInv
  <2> QED BY <2>4, <2>5
<1> QED BY <1>1, <1>2, <1>3, <1>4, <1>5, <1>6, <1>7 DEF Next, Widget

\* The entry is never there twice unless two calls of setShown() overlapped.
THEOREM EntryOnce == Spec => []SidebarOnce
<1>1. SidebarInv => SidebarOnce
  BY DEF SidebarInv
<1> QED BY <1>1, SidebarInit, SidebarStep, PTL DEF Spec

\* The checkbox says whether the entry exists, unless another process changed the
\* sidebar since it was set or read back.
THEOREM CheckboxTells == Spec => []CheckboxTellsSidebar
<1>1. SidebarInv => CheckboxTellsSidebar
  BY DEF SidebarInv
<1> QED BY <1>1, SidebarInit, SidebarStep, PTL DEF Spec
==============================================================================
