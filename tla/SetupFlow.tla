------------------------------ MODULE SetupFlow ------------------------------
(***************************************************************************)
(* SetupWidget with the nested event loops its handlers wait in, the        *)
(* sidebar entry of DropboxPlaces, and what other processes do to the link  *)
(* and to the sidebar (another widget, kio-dropbox-auth --sidebar).         *)
(*                                                                         *)
(* While finishAuthorization() waits for the network the widget goes on     *)
(* handling events: Return in the code field enters it again, System        *)
(* Settings calls refresh(), buttons work. The calls under way are a stack: *)
(* only the innermost can return. Account has the stores one by one; here   *)
(* a link is read in one step, and written in one: the key and the email,   *)
(* with the token or without it.                                            *)
(*                                                                         *)
(* A grant is what a code is good for, once: it stands for the code and     *)
(* for the tokens that are given for it. It belongs to the account that     *)
(* approved it, the app key and the authorization page it was asked with;   *)
(* page 0 is none of this widget's. A page stands for its PKCE verifier.    *)
(***************************************************************************)
EXTENDS Integers, Sequences

CONSTANTS Accounts, Keys, BuiltIn,
          None,         \* no token, an empty string, nothing under way
          MaxPages,     \* bound on the authorization pages opened
          MaxDepth,     \* bound on the calls of finishAuthorization() under way
          MaxEvents     \* bound on those pages and what other processes do together

ASSUME KeysAssumption == BuiltIn \in Keys
\* What setShown() has seen and is about to do is something.
ASSUME NoneAssumption ==
    None \notin [want: BOOLEAN, found: BOOLEAN, next: {"linked", "connect", "stay"}]
ASSUME BoundsAssumption == MaxPages \in Nat /\ MaxDepth \in Nat /\ MaxEvents \in Nat

VARIABLES
    stored,     \* what the stores hold of a link, whole or not
    entries,    \* how often dropbox:/ stands in the places file
    m,          \* m_account
    opened,     \* the keys of the authorization pages opened so far; the last
                \* one is that of m_codeVerifier
    page,       \* "linked", "connect" (both pages that lead to), "authorize"
    checked,    \* the checkbox of the linked page
    calls,      \* the calls of finishAuthorization() under way, innermost last
    placing,    \* what each process is doing in DropboxPlaces::setShown()
    redeemed,   \* grants whose code has been redeemed
    meddling,   \* history: how often others acted
    elsewhere,  \* history: the sidebar was changed since the checkbox was set
    raced       \* history: two calls of setShown() overlapped

history == <<meddling, elsewhere, raced>>
vars == <<stored, entries, m, opened, page, checked, calls, placing, redeemed, history>>

Grants == [acct: Accounts, key: Keys, page: 0..MaxPages]
Emails == Accounts \cup {None}
Tokens == Grants \cup {None}
Links == [key: Keys, email: Emails, token: Tokens]

\* Every variable has its type, and pages, calls and entries are within their
\* bounds: there are never fewer than no entries in the sidebar.
TypeOK ==
    /\ stored \in Links /\ entries \in Nat
    /\ m \in [key: Keys, email: Emails, refresh: Tokens, access: Tokens]
    /\ opened \in Seq(Keys) /\ Len(opened) <= MaxPages
    /\ page \in {"linked", "connect", "authorize"} /\ checked \in BOOLEAN
    /\ calls \in Seq([at: {"redeem", "info"}, code: Grants, key: Keys,
                      verifier: 0..MaxPages, bearer: Tokens, clean: BOOLEAN])
    /\ Len(calls) <= MaxDepth
    /\ placing \in [{"widget", "other"} -> {None} \cup
                       [want: BOOLEAN, found: BOOLEAN, next: {"linked", "connect", "stay"}]]
    /\ redeemed \subseteq Grants /\ meddling \in 0..MaxEvents
    /\ elsewhere \in BOOLEAN /\ raced \in BOOLEAN

\* The link of one grant, whose owner may be missing.
Whole(link) ==
    /\ link.token # None
    /\ link.key = link.token.key /\ link.email \in {link.token.acct, None}

NoLink == [key |-> BuiltIn, email |-> None, token |-> None]

-----------------------------------------------------------------------------
\* load(): a token that is held stays if there is none in the stores, unless its
\* file is there and empty, or none in the cache, which may hold one that somebody
\* else got for the same key.
Loaded(account, link) ==
    [key: {link.key}, email: {link.email},
     refresh: IF link.token = None THEN {account.refresh, None} ELSE {link.token},
     access: {account.access} \cup {g \in Grants : g.key = link.key /\ g.page = 0}]

Blank == [key |-> BuiltIn, email |-> None, refresh |-> None, access |-> None]

\* The page refresh() turns to, startPage() if there is no account.
PageFor(account) == IF account.refresh = None THEN "connect" ELSE "linked"

Init ==
    /\ stored \in {NoLink} \cup {[key |-> g.key, email |-> g.acct, token |-> g] :
                                    g \in {h \in Grants : h.page = 0}}
    /\ entries \in {0, 1}
    /\ redeemed = {} /\ m \in Loaded(Blank, stored)
    /\ opened = <<>> /\ page = PageFor(m)
    /\ checked = (page = "linked" /\ entries > 0)
    /\ calls = <<>> /\ placing = [p \in {"widget", "other"} |-> None]
    /\ meddling = 0 /\ elsewhere = FALSE /\ raced = FALSE

\* The widget's event loop runs, nested or not.
Listening == placing["widget"] = None

FewEvents == Len(opened) + meddling < MaxEvents

\* Calls that find another account object, or verifier, than they left.
Disturbed(under) == [i \in DOMAIN under |-> [under[i] EXCEPT !.clean = FALSE]]

-----------------------------------------------------------------------------
(* DropboxPlaces. *)

\* setShown() builds a model of the places file, and looks.
SetShown(p, shown, next) ==
    placing' = [placing EXCEPT ![p] = [want |-> shown, found |-> entries > 0, next |-> next]]

\* Variant: setShown() does not look for the entry first.
EntriesAfterUnseen(act) ==
    IF act.want THEN entries + 1 ELSE IF entries > 0 THEN entries - 1 ELSE 0

\* Variant: the entry it found is removed even if it has gone since.
EntriesAfterBlind(act) ==
    IF act.want = act.found THEN entries
    ELSE IF act.want THEN entries + 1 ELSE entries - 1

\* It adds or removes one entry unless it found what is wanted.
EntriesAfter(act) ==
    IF act.want = act.found THEN entries
    ELSE IF act.want THEN entries + 1
    ELSE IF entries > 0 THEN entries - 1 ELSE 0

\* Variant: the checkbox is not read back.
ReadBackNothing == checked

\* isShown(), of the places file as it is by now.
ReadBack == entries' > 0

\* showLinked(), which reads the checkbox back without its signal.
ShowLinked ==
    /\ page' = "linked"
    /\ checked' = ReadBack
    /\ elsewhere' = FALSE

Overlapped(p) == \E q \in DOMAIN placing \ {p} : placing[q] # None

\* The second half of setShown() and, in the widget, the end of the handler.
Place(p) ==
    /\ placing[p] # None
    /\ entries' = EntriesAfter(placing[p])
    /\ placing' = [placing EXCEPT ![p] = None]
    /\ raced' = (raced \/ Overlapped(p))
    /\ CASE placing[p].next = "linked" -> ShowLinked
         [] placing[p].next = "connect" -> page' = "connect" /\ UNCHANGED <<checked, elsewhere>>
         [] placing[p].next = "stay" ->
               /\ elsewhere' = (elsewhere \/ (p = "other" /\ entries' # entries))
               /\ UNCHANGED <<page, checked>>
    /\ UNCHANGED <<stored, m, opened, calls, redeemed, meddling>>

\* The user toggles the checkbox.
Toggle ==
    /\ Listening /\ page = "linked"
    /\ checked' = ~checked
    /\ SetShown("widget", ~checked, "stay")
    /\ UNCHANGED <<stored, entries, m, opened, page, calls, redeemed, history>>

\* kio-dropbox-auth --sidebar show|hide, or the checkbox of another widget.
OtherPlaces ==
    /\ FewEvents /\ meddling' = meddling + 1
    /\ placing["other"] = None
    /\ \E shown \in BOOLEAN : SetShown("other", shown, "stay")
    /\ UNCHANGED <<stored, entries, m, opened, page, checked, calls, redeemed,
                   elsewhere, raced>>

\* Another widget links or unlinks: what its own nested calls, a wallet that does
\* not open and its replies that break off make it leave may be of several grants.
OtherLinks ==
    /\ FewEvents /\ meddling' = meddling + 1
    /\ stored' \in [key: Keys, email: Emails,
                    token: {g \in Grants : g.page = 0} \cup {stored.token, None}]
    /\ UNCHANGED <<entries, m, opened, page, checked, calls, placing, redeemed,
                   elsewhere, raced>>

-----------------------------------------------------------------------------
(* The widget. *)

\* Variant: an authorization page stays.
RefreshLeavingPage ==
    /\ Listening
    /\ m' \in Loaded(m, stored)
    /\ entries' = entries
    /\ IF page = "authorize" THEN UNCHANGED <<page, checked, elsewhere>>
       ELSE IF PageFor(m') = "linked" THEN ShowLinked
       ELSE page' = "connect" /\ UNCHANGED <<checked, elsewhere>>
    /\ calls' = Disturbed(calls)
    /\ UNCHANGED <<stored, opened, placing, redeemed, meddling, raced>>

\* refresh(), which load() of the System Settings module calls.
Refresh ==
    /\ Listening
    /\ m' \in Loaded(m, stored)
    /\ entries' = entries
    /\ IF PageFor(m') = "linked" THEN ShowLinked
       ELSE page' = "connect" /\ UNCHANGED <<checked, elsewhere>>
    /\ calls' = Disturbed(calls)
    /\ UNCHANGED <<stored, opened, placing, redeemed, meddling, raced>>

\* openAuthorizationPage(): the key that is typed, or the built-in one, and a
\* new verifier, whose challenge goes into the URL. While the dialog that tells of
\* a browser that did not open is there, no other handler of the widget runs and no
\* call that waits returns, so nothing comes between the key and the page.
OpenAuthorizationPage ==
    /\ Listening /\ page = "connect" /\ Len(opened) < MaxPages /\ FewEvents
    /\ \E key \in Keys :
          m' = [m EXCEPT !.key = key] /\ opened' = Append(opened, key)
    /\ page' = "authorize"
    /\ calls' = Disturbed(calls)
    /\ UNCHANGED <<stored, entries, checked, placing, redeemed, history>>

\* The codes a user may hold, one per account for each page that was opened.
Codes == {g \in Grants : g.page \in DOMAIN opened /\ g.key = opened[g.page]}

\* finishAuthorization(), from the button or with Return; the code is posted.
FinishAuthorization ==
    /\ Listening /\ page = "authorize" /\ Len(calls) < MaxDepth
    /\ \E code \in Codes :
          calls' = Append(calls, [at |-> "redeem", code |-> code, key |-> m.key,
                                  verifier |-> Len(opened), bearer |-> None,
                                  clean |-> TRUE])
    /\ UNCHANGED <<stored, entries, m, opened, page, checked, placing, redeemed, history>>

Innermost == calls[Len(calls)]
Outer == SubSeq(calls, 1, Len(calls) - 1)
Waiting(where) == Listening /\ calls # <<>> /\ Innermost.at = where

\* An error is shown, and the call returns to the loop it was made from.
GiveUp ==
    /\ Listening /\ calls # <<>>
    /\ calls' = Outer
    /\ UNCHANGED <<stored, entries, m, opened, page, checked, placing, redeemed, history>>

\* Variant: only the refresh token is taken from the answer.
RedeemedRefreshOnly(grant) == [m EXCEPT !.refresh = grant]

RedeemedGrant(grant) == [m EXCEPT !.refresh = grant, !.access = grant]

\* redeemAuthorizationCode(): the code is good once, for the key and the verifier
\* it was asked for with. An answer that breaks off holds no token at all.
Redeem ==
    /\ Waiting("redeem")
    /\ LET c == Innermost IN
          /\ c.code \notin redeemed /\ redeemed' = redeemed \cup {c.code}
          /\ c.key = c.code.key /\ c.verifier = c.code.page
          /\ \/ /\ m' = RedeemedGrant(c.code)
                /\ calls' = Append(Disturbed(Outer), [c EXCEPT
                       !.at = "info",
                       !.bearer = IF m'.access = None THEN c.code ELSE m'.access])
             \/ /\ m' = [m EXCEPT !.refresh = None, !.access = None]
                /\ calls' = Disturbed(Outer)
    /\ UNCHANGED <<stored, entries, opened, page, checked, placing, history>>

\* The tokens fetchAccountInfo() may ask with: the one that was held when it began
\* or, in another attempt, the one that is held or refreshed by then.
Bearers ==
    ({Innermost.bearer, m.access} \cup IF m.refresh = None \/ m.refresh.key # m.key
                                     THEN {} ELSE {m.refresh}) \ {None}

\* An answer that breaks off after its status names nobody.
Identified(bearer) == {[m EXCEPT !.email = email] : email \in {bearer.acct, None}}

\* What the stores hold when the key and the email were written, and the token was
\* or was not.
StoredWith(token) == [key |-> m'.key, email |-> m'.email, token |-> token]

\* fetchAccountInfo() returns, and the account is saved, shown in the sidebar and on
\* the linked page. A wallet that does not open may hide the token behind the one
\* it holds, and a full disk lose it, which nobody looks for. If the config file
\* cannot be written nothing is, if the token file does not open it is only the
\* token that is missing; either ends the call.
Save ==
    /\ Waiting("info")
    /\ \E bearer \in Bearers : m' \in Identified(bearer)
    /\ \/ /\ stored' \in {StoredWith(m'.refresh), StoredWith(stored.token), StoredWith(None)}
          /\ SetShown("widget", TRUE, "linked")
       \/ /\ stored' \in {stored, StoredWith(stored.token)}
          /\ UNCHANGED placing
    /\ calls' = Disturbed(Outer)
    /\ UNCHANGED <<entries, opened, page, checked, redeemed, history>>

\* unlink(), when the user has confirmed; a wallet that does not open keeps its token.
Unlink ==
    /\ Listening /\ page = "linked"
    /\ m' = Blank
    /\ stored' \in {NoLink, [NoLink EXCEPT !.token = stored.token]}
    /\ SetShown("widget", FALSE, "connect")
    /\ calls' = Disturbed(calls)
    /\ UNCHANGED <<entries, opened, page, checked, redeemed, history>>

Widget == \/ Toggle \/ Refresh \/ OpenAuthorizationPage \/ FinishAuthorization
          \/ Redeem \/ GiveUp \/ Save \/ Unlink \/ Place("widget")

Next == Widget \/ OtherPlaces \/ OtherLinks \/ Place("other")

Spec == Init /\ [][Next]_vars

-----------------------------------------------------------------------------
\* This widget stores a token that was not stored before.
NewToken == stored'.token \notin {stored.token, None} /\ calls' # calls

\* When a token is stored, the key and the email that are stored with it are of the
\* same grant, the one whose code was entered, under the page it was asked with,
\* unless another handler ran in the nested loops of the call and changed the
\* account. Only the email may be missing.
CleanLinkIsWhole ==
    [][NewToken /\ Innermost.clean =>
          Whole(stored') /\ stored'.token = Innermost.code]_vars

\* The authorize page waits for the code of the last page that was opened: its
\* key is the account's, so that the code can be redeemed.
CodeFitsAccount ==
    page = "authorize" => opened # <<>> /\ m.key = opened[Len(opened)]

\* The checkbox says whether the entry exists, unless another process changed
\* the sidebar since: there is no second copy that could drift out of sync.
CheckboxTellsSidebar ==
    page = "linked" /\ Listening /\ ~elsewhere /\ ~raced => checked = (entries > 0)

\* The entry is never there twice, unless two processes looked for it before
\* either had added it.
SidebarOnce == ~raced => entries <= 1

\* "Confirms the new token works and records who it belongs to.": the email that
\* is stored with a new token is that of the account the token was given for.
LinkKnowsItsOwner ==
    [][NewToken /\ stored'.email # None => stored'.email = stored'.token.acct]_vars
==============================================================================
