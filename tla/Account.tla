------------------------------- MODULE Account -------------------------------
(***************************************************************************)
(* DropboxAccount and everybody who holds one: the KIO workers, which only *)
(* read the link and share a cache of access tokens, and the setup widgets *)
(* (in the helper or in System Settings), which make and break the link.    *)
(*                                                                         *)
(* All of them are processes of their own that share the config file, the  *)
(* wallet, the token file and the cache without any lock: every access to  *)
(* one of the four is a step, and a process may be killed between any two. *)
(*                                                                         *)
(* A widget waits for Dropbox in nested event loops, in which its handlers  *)
(* run: finishAuthorization() is entered again, refresh(), a new page or    *)
(* unlink() change the account under the call that waits. So its calls are  *)
(* a stack, and only the innermost returns. Nothing nests in a worker.      *)
(*                                                                         *)
(* A grant is what Dropbox gave an app (a key) for an account; it stands   *)
(* for the refresh token and for every access token minted from it. The    *)
(* email stands for the account, an unset m_appKey for the built-in key.   *)
(* A token may run out at any time, so whether one that is held or cached  *)
(* is still good is decided anew each time it is looked at.                *)
(***************************************************************************)
EXTENDS Naturals, Sequences

CONSTANTS Workers, Setups,  \* processes
          Accounts, Keys,   \* Dropbox accounts and app keys
          BuiltIn,          \* builtInAppKey()
          WalletFlaky,      \* openWallet() may fail although KWallet is enabled
          MaxLinks,         \* bound on the codes that are redeemed
          MaxDepth,         \* bound on the nested calls of finishAuthorization()
          None,             \* no value, an empty string
          Torn              \* a link that was made or broken half-way, by two
                            \* at once, past a wallet that did not open, or on a
                            \* disk that was full

Processes == Workers \cup Setups
Grants == [acct: Accounts, key: Keys]
Emails == Accounts \cup {None}
Tokens == Grants \cup {None}

\* What the stores hold of a link, whole or not.
Links == [key: Keys, email: Emails, token: Tokens]

\* A request that is waited for: the code or the token that was sent, and what
\* code the user gave to the call it belongs to (history), until another
\* handler of the widget runs.
Frames == [at: {"redeem", "refresh", "call"}, token: Tokens, code: Tokens]

ASSUME ProcessesAssumption == Workers \cap Setups = {}
ASSUME KeysAssumption == BuiltIn \in Keys
ASSUME BoundsAssumption == MaxLinks \in Nat /\ MaxDepth \in Nat
ASSUME NoneAssumption ==
    /\ None \notin Accounts /\ None \notin Grants /\ Torn \notin Links
    /\ None \notin [token: Tokens] \cup [key: Keys, token: Grants]

VARIABLES
    enabled,    \* walletUsable()
    config,     \* kio-dropboxrc; without it every value is the empty string
    wallet,     \* the entry in KWallet; an empty one is read like none
    file,       \* the refresh-token file, which may be empty, or None
    cache,      \* kio-dropbox-token.json, or None
    m,          \* the DropboxAccount of each process
    pc,         \* where each process is; "idle" in an event loop, nested or not
    calls,      \* what each process waits for, innermost last
    page,       \* what each setup widget shows: "connect", "authorize", "linked"
    redeemed,   \* codes redeemed so far
    link,       \* history: what the last save() or forget() was to leave
    intact      \* history: processes whose load(), save() or forget() nobody disturbed

stores == <<config, wallet, file, cache>>
history == <<redeemed, link, intact>>
vars == <<enabled, stores, m, pc, calls, page, history>>

Loading == {"config", "wallet", "file", "cache"}
Saving == {"saveConfig", "saveWallet", "saveClean", "saveFile"}
Forgetting == {"forgetConfig", "forgetFile", "forgetWallet"}
Calling == {"authorize", "store"}

\* A DropboxAccount before its first load(), and what is stored without a link.
Blank == [key |-> BuiltIn, email |-> None, refresh |-> None, access |-> None]
NoLink == [key |-> BuiltIn, email |-> None, token |-> None]

\* Every variable has its type, and only setup widgets nest calls and save.
TypeOK ==
    /\ enabled \in BOOLEAN
    /\ config \in [key: Keys, email: Emails]
    /\ wallet \in Tokens /\ file \in [token: Tokens] \cup {None}
    /\ cache \in [key: Keys, token: Grants] \cup {None}
    /\ m \in [Processes -> [key: Keys, email: Emails, refresh: Tokens, access: Tokens]]
    /\ pc \in [Processes -> {"off", "idle", "loaded"} \cup Loading \cup Calling
                               \cup Saving \cup Forgetting]
    /\ calls \in [Processes -> Seq(Frames)]
    /\ \A w \in Workers : pc[w] \notin Saving \cup Forgetting /\ Len(calls[w]) <= 1
    /\ \A s \in Setups : Len(calls[s]) <= MaxDepth
    /\ page \in [Setups -> {"connect", "authorize", "linked"}]
    /\ redeemed \in 0..MaxLinks
    /\ link \in Links \cup {Torn}
    /\ intact \subseteq Processes

-----------------------------------------------------------------------------
\* There may be a link from before, even from a time when KWallet was not used.
Init ==
    /\ enabled \in BOOLEAN
    /\ link \in {NoLink} \cup {[key |-> g.key, email |-> g.acct, token |-> g] : g \in Grants}
    /\ config = [key |-> link.key, email |-> link.email]
    /\ \/ wallet = None
          /\ file = IF link.token = None THEN None ELSE [token |-> link.token]
       \/ enabled /\ wallet = link.token /\ file = None
    /\ cache = None
    /\ m = [p \in Processes |-> Blank]
    /\ pc = [p \in Processes |-> "off"]
    /\ calls = [p \in Processes |-> <<>>]
    /\ page = [s \in Setups |-> "connect"]
    /\ redeemed = 0 /\ intact = {}

Goto(p, where) == pc' = [pc EXCEPT ![p] = where]
Hold(p, account) == m' = [m EXCEPT ![p] = account]
Show(s, which) == page' = [page EXCEPT ![s] = which]

\* isConfigured()
Configured(p) == m[p].refresh # None

\* openWallet(): refused by the user or unavailable, if it is flaky.
Opens == IF ~enabled THEN {FALSE} ELSE IF WalletFlaky THEN BOOLEAN ELSE {TRUE}

(* The calls that wait. *)

Innermost(p) == calls[p][Len(calls[p])]
Outer(p) == SubSeq(calls[p], 1, Len(calls[p]) - 1)
Waiting(p, where) == pc[p] = "idle" /\ calls[p] # <<>> /\ Innermost(p).at = where

\* Another handler of the widget runs.
Disturbed(under) == [i \in DOMAIN under |-> [under[i] EXCEPT !.code = None]]

\* A call is entered from an event loop, nested or not.
Call(p, at, code) ==
    calls' = [calls EXCEPT ![p] =
                 Append(Disturbed(calls[p]), [at |-> at, token |-> code, code |-> code])]

\* The innermost call goes on with another request, which it waits for.
Await(p, at, token) ==
    /\ calls' = [calls EXCEPT ![p][Len(calls[p])] =
                     [at |-> at, token |-> token, code |-> Innermost(p).code]]
    /\ Goto(p, "idle")

\* It has an answer and goes on without waiting.
Answered(p, where) ==
    /\ calls' = [calls EXCEPT ![p][Len(calls[p])].token = None]
    /\ Goto(p, where)

\* It returns to the loop it was entered from, an error having been shown or not.
Return(p) == calls' = [calls EXCEPT ![p] = Outer(p)] /\ Goto(p, "idle")

(* The history. *)

\* Between the first and the last write of save() or forget().
Midway(p) == pc[p] \in (Saving \cup Forgetting) \ {"saveConfig", "forgetConfig"}

Quiet == \A s \in Setups : ~Midway(s)

\* A write that is the first disturbs everybody, and is disturbed if another is
\* midway; a later one disturbs everybody else.
FirstWrite(s) == intact' = IF Quiet THEN {s} ELSE {}
LaterWrite(s) == intact' = intact \cap {s}
LastWrite(s) == intact' = {}

\* The link is what s made of it.
Leaves(s, value) == link' = IF s \in intact THEN value ELSE Torn

\* What save() was to store: what the code is for, with or without the email, or
\* whatever the account holds when another handler ran since the code was given.
ToSave(s) ==
    LET code == Innermost(s).code IN
    IF code = None
    THEN [key |-> m[s].key, email |-> m[s].email, token |-> m[s].refresh]
    ELSE [key |-> code.key, token |-> code,
          email |-> IF m[s].email = None THEN None ELSE code.acct]

\* The process constructs its DropboxAccount, which starts to load.
Start(p) ==
    /\ pc[p] = "off"
    /\ Goto(p, "config")
    /\ UNCHANGED <<enabled, stores, m, calls, page, history>>

\* The process ends, by itself or not, wherever it is. Nothing of it is left but
\* what it wrote.
Exit(p) ==
    /\ pc[p] # "off"
    /\ Goto(p, "off") /\ Hold(p, Blank)
    /\ calls' = [calls EXCEPT ![p] = <<>>]
    /\ page' = [s \in Setups |-> IF s = p THEN "connect" ELSE page[s]]
    /\ link' = IF Midway(p) THEN Torn ELSE link
    /\ intact' = intact \ {p}
    /\ UNCHANGED <<enabled, stores, redeemed>>

-----------------------------------------------------------------------------
(* load(), one store at a time. *)

\* Variant: an account that has a key keeps it.
ReadConfigOnce(p) == [m[p] EXCEPT !.email = config.email]

\* The config file replaces what the account held, whether it exists or not.
ReadConfig(p) == [m[p] EXCEPT !.key = config.key, !.email = config.email]

LoadConfig(p) ==
    /\ pc[p] = "config"
    /\ Goto(p, "wallet") /\ Hold(p, ReadConfig(p))
    /\ intact' = IF Quiet THEN intact \cup {p} ELSE intact \ {p}
    /\ UNCHANGED <<enabled, stores, calls, page, redeemed, link>>

\* readRefreshTokenFromWallet(): the file is not looked at if it succeeds.
LoadWallet(p) ==
    /\ pc[p] = "wallet"
    /\ \E open \in Opens :
          /\ IF open /\ wallet # None
             THEN Hold(p, [m[p] EXCEPT !.refresh = wallet]) /\ Goto(p, "cache")
             ELSE Goto(p, "file") /\ UNCHANGED m
          /\ intact' = IF enabled /\ ~open THEN intact \ {p} ELSE intact
    /\ UNCHANGED <<enabled, stores, calls, page, redeemed, link>>

\* readRefreshTokenFromFile(): a token that is held stays if there is no file,
\* not if the file is empty.
LoadFile(p) ==
    /\ pc[p] = "file"
    /\ Goto(p, "cache")
    /\ Hold(p, IF file = None THEN m[p] ELSE [m[p] EXCEPT !.refresh = file.token])
    /\ UNCHANGED <<enabled, stores, calls, page, history>>

\* loadCachedAccessToken(): ignored if it was minted for another key, or has
\* run out. A file that is just being written does not parse and is ignored too.
LoadCache(p) ==
    /\ pc[p] = "cache"
    /\ Goto(p, "loaded")
    /\ \/ UNCHANGED m
       \/ /\ cache # None /\ cache.key = m[p].key
          /\ Hold(p, [m[p] EXCEPT !.access = cache.token])
    /\ UNCHANGED <<enabled, stores, calls, page, history>>

-----------------------------------------------------------------------------
(* A worker's operation, and the requests of workers and widgets. *)

\* requireAccount() reads the stores again unless there is an account.
Operation(w) ==
    /\ pc[w] = "idle" /\ calls[w] = <<>>
    /\ Call(w, "call", None)
    /\ Goto(w, IF Configured(w) THEN "authorize" ELSE "config")
    /\ UNCHANGED <<enabled, stores, m, page, history>>

\* The constructor is done, or the second half of requireAccount() decides.
WorkerLoaded(w) ==
    /\ pc[w] = "loaded"
    /\ IF calls[w] # <<>> /\ Configured(w)
          THEN Goto(w, "authorize") /\ UNCHANGED calls
          ELSE Goto(w, "idle") /\ calls' = [calls EXCEPT ![w] = <<>>]
    /\ UNCHANGED <<enabled, stores, m, page, history>>

\* What the token endpoint gives for the refresh token and the key that are
\* posted: it only serves the app it was given to.
Granted(p) == IF m[p].refresh.key = m[p].key THEN m[p].refresh ELSE None

\* accessToken(): the one that is held if it is good for another minute, else
\* a new one, for which there has to be a refresh token.
Authorize(p) ==
    /\ pc[p] = "authorize"
    /\ \/ m[p].access # None /\ Await(p, "call", m[p].access)
       \/ Configured(p) /\ Await(p, "refresh", Granted(p))
       \/ ~Configured(p) /\ Return(p)
    /\ UNCHANGED <<enabled, stores, m, page, history>>

\* Variant: nobody looks whether the answer holds a token.
RefreshedUnchecked(p) ==
    /\ Waiting(p, "refresh")
    /\ \/ /\ Hold(p, [m[p] EXCEPT !.access = Innermost(p).token])
          /\ Answered(p, "store")
       \/ UNCHANGED m /\ Return(p)
    /\ UNCHANGED <<enabled, stores, page, history>>

\* The token endpoint answers, or not; a body that was cut off holds no token.
\* What was posted may not be what the account holds by now.
Refreshed(p) ==
    /\ Waiting(p, "refresh")
    /\ \/ /\ Innermost(p).token # None
          /\ Hold(p, [m[p] EXCEPT !.access = Innermost(p).token])
          /\ Answered(p, "store")
       \/ Hold(p, [m[p] EXCEPT !.access = None]) /\ Return(p)
       \/ UNCHANGED m /\ Return(p)
    /\ UNCHANGED <<enabled, stores, page, history>>

\* Variant: the cache is tied to the key that is configured by now.
CacheEntryForConfig(p) == [key |-> config.key, token |-> m[p].access]

\* appKey() as it is by now.
CacheEntry(p) == [key |-> m[p].key, token |-> m[p].access]

\* storeCachedAccessToken(), which may fail silently; then the call is sent.
StoreCache(p) ==
    /\ pc[p] = "store"
    /\ Await(p, "call", m[p].access)
    /\ cache' \in {cache, CacheEntry(p)}
    /\ UNCHANGED <<enabled, config, wallet, file, m, page, history>>

\* A 401: invalidateAccessToken(), and round again.
Rejected(p) ==
    /\ Waiting(p, "call")
    /\ Answered(p, "authorize")
    /\ Hold(p, [m[p] EXCEPT !.access = None])
    /\ cache' = None
    /\ UNCHANGED <<enabled, config, wallet, file, page, history>>

\* A transient error: after a pause, in which handlers run too, round again.
Retried(p) ==
    /\ Waiting(p, "call")
    /\ Answered(p, "authorize")
    /\ UNCHANGED <<enabled, stores, m, page, history>>

\* The API answered, or the call failed for good: the operation is over.
WorkerReply(w) ==
    /\ Waiting(w, "call")
    /\ Return(w)
    /\ UNCHANGED <<enabled, stores, m, page, history>>

-----------------------------------------------------------------------------
(* The setup widget. Its handlers run whenever it is in an event loop. *)

\* Calls that wait find another account, or another page, than they left.
Disturb(s) == calls' = [calls EXCEPT ![s] = Disturbed(@)]

\* refresh(), which System Settings calls whenever it likes.
Refresh(s) ==
    /\ pc[s] = "idle"
    /\ Goto(s, "config")
    /\ Disturb(s)
    /\ UNCHANGED <<enabled, stores, m, page, history>>

SetupLoaded(s) ==
    /\ pc[s] = "loaded"
    /\ Goto(s, "idle")
    /\ Show(s, IF Configured(s) THEN "linked" ELSE "connect")
    /\ intact' = intact \ {s}
    /\ UNCHANGED <<enabled, stores, m, calls, redeemed, link>>

\* openAuthorizationPage(), with the key of the user's own or without. While its
\* error dialog is open no other handler runs, and no call that waits returns.
OpenAuthorizationPage(s) ==
    /\ pc[s] = "idle" /\ page[s] = "connect"
    /\ \E key \in Keys : Hold(s, [m[s] EXCEPT !.key = key])
    /\ Show(s, "authorize")
    /\ Disturb(s)
    /\ UNCHANGED <<enabled, stores, pc, history>>

\* finishAuthorization(), from the button or with Return; a code is posted with
\* the key. A code that was for another key is refused like any other.
FinishAuthorization(s) ==
    /\ pc[s] = "idle" /\ page[s] = "authorize" /\ Len(calls[s]) < MaxDepth
    /\ \E code \in Grants : code.key = m[s].key /\ Call(s, "redeem", code)
    /\ UNCHANGED <<enabled, stores, m, pc, page, history>>

\* Variant: only the refresh token is taken from the answer.
RedeemedRefreshOnly(s, grant) == [m[s] EXCEPT !.refresh = grant]

RedeemedGrant(s, grant) == [m[s] EXCEPT !.refresh = grant, !.access = grant]

\* redeemAuthorizationCode(): the code is good; or it is refused; or the body
\* was cut off and holds no token.
Redeemed(s) ==
    /\ Waiting(s, "redeem")
    /\ \/ /\ redeemed < MaxLinks /\ redeemed' = redeemed + 1
          /\ Hold(s, RedeemedGrant(s, Innermost(s).token))
          /\ Answered(s, "authorize")
       \/ /\ \/ UNCHANGED m
             \/ Hold(s, [m[s] EXCEPT !.refresh = None, !.access = None])
          /\ Return(s) /\ UNCHANGED redeemed
    /\ UNCHANGED <<enabled, stores, page, link, intact>>

\* fetchAccountInfo() returns: whose token was sent, nothing if the reply broke
\* off after its 200, or an error.
AccountInfo(s) ==
    /\ Waiting(s, "call")
    /\ \/ /\ \E email \in {Innermost(s).token.acct, None} :
                Hold(s, [m[s] EXCEPT !.email = email])
          /\ Answered(s, "saveConfig")
       \/ UNCHANGED m /\ Return(s)
    /\ UNCHANGED <<enabled, stores, page, history>>

\* finishAuthorization() ends on the linked page.
Saved(s) == Return(s) /\ Show(s, "linked")

\* If the config file cannot be written nothing is, and the page stays.
SaveConfig(s) ==
    /\ pc[s] = "saveConfig"
    /\ \/ /\ config' = [key |-> m[s].key, email |-> m[s].email]
          /\ Goto(s, "saveWallet") /\ FirstWrite(s) /\ UNCHANGED calls
       \/ Return(s) /\ UNCHANGED <<config, intact>>
    /\ UNCHANGED <<enabled, wallet, file, cache, m, page, redeemed, link>>

\* writeRefreshTokenToWallet()
SaveWallet(s) ==
    /\ pc[s] = "saveWallet"
    /\ \E open \in Opens :
          IF open THEN wallet' = m[s].refresh /\ Goto(s, "saveClean")
                  ELSE Goto(s, "saveFile") /\ UNCHANGED wallet
    /\ LaterWrite(s)
    /\ UNCHANGED <<enabled, config, file, cache, m, calls, page, redeemed, link>>

\* A token left over from a run without a wallet is removed.
SaveClean(s) ==
    /\ pc[s] = "saveClean"
    /\ file' = None
    /\ Saved(s)
    /\ LastWrite(s) /\ Leaves(s, ToSave(s))
    /\ UNCHANGED <<enabled, config, wallet, cache, m, redeemed>>

\* writeRefreshTokenToFile(), which a token in the wallet shadows. If the file does
\* not open the page stays, and so does the config file that was written; whether
\* what is written to it gets there nobody looks.
SaveFile(s) ==
    /\ pc[s] = "saveFile"
    /\ \/ \E token \in {m[s].refresh, None} :
             /\ file' = [token |-> token] /\ Saved(s)
             /\ Leaves(s, IF token # m[s].refresh \/ (enabled /\ wallet # None)
                          THEN Torn ELSE ToSave(s))
       \/ Return(s) /\ link' = Torn /\ UNCHANGED <<file, page>>
    /\ LastWrite(s)
    /\ UNCHANGED <<enabled, config, wallet, cache, m, redeemed>>

\* unlink(), and the first lines of forget(): the object, then the cache.
Unlink(s) ==
    /\ pc[s] = "idle" /\ page[s] = "linked"
    /\ Goto(s, "forgetConfig") /\ Hold(s, Blank)
    /\ cache' = None
    /\ Disturb(s)
    /\ UNCHANGED <<enabled, config, wallet, file, page, history>>

ForgetConfig(s) ==
    /\ pc[s] = "forgetConfig"
    /\ Goto(s, "forgetFile")
    /\ config' = [key |-> BuiltIn, email |-> None]
    /\ FirstWrite(s)
    /\ UNCHANGED <<enabled, wallet, file, cache, m, calls, page, redeemed, link>>

ForgetFile(s) ==
    /\ pc[s] = "forgetFile"
    /\ Goto(s, "forgetWallet")
    /\ file' = None
    /\ LaterWrite(s)
    /\ UNCHANGED <<enabled, config, wallet, cache, m, calls, page, redeemed, link>>

\* Variant: the token in the wallet is left to the next save().
ForgetWalletNot(s) ==
    /\ pc[s] = "forgetWallet"
    /\ Goto(s, "idle")
    /\ Show(s, "connect")
    /\ LastWrite(s) /\ Leaves(s, NoLink)
    /\ UNCHANGED <<enabled, config, wallet, file, cache, m, calls, redeemed>>

\* The wallet's folder goes last. If the wallet does not open the token stays.
ForgetWallet(s) ==
    /\ pc[s] = "forgetWallet"
    /\ Goto(s, "idle")
    /\ \E open \in Opens : wallet' = IF open THEN None ELSE wallet
    /\ Show(s, "connect")
    /\ LastWrite(s) /\ Leaves(s, IF enabled /\ wallet' # None THEN Torn ELSE NoLink)
    /\ UNCHANGED <<enabled, config, file, cache, m, calls, redeemed>>

-----------------------------------------------------------------------------
Load(p) == LoadConfig(p) \/ LoadWallet(p) \/ LoadFile(p) \/ LoadCache(p)

Request(p) == Authorize(p) \/ Refreshed(p) \/ StoreCache(p) \/ Rejected(p) \/ Retried(p)

Save(s) == SaveConfig(s) \/ SaveWallet(s) \/ SaveClean(s) \/ SaveFile(s)

Forget(s) == Unlink(s) \/ ForgetConfig(s) \/ ForgetFile(s) \/ ForgetWallet(s)

Next ==
    \/ \E p \in Processes : Start(p) \/ Exit(p) \/ Load(p) \/ Request(p)
    \/ \E w \in Workers : Operation(w) \/ WorkerLoaded(w) \/ WorkerReply(w)
    \/ \E s \in Setups :
          \/ Refresh(s) \/ SetupLoaded(s) \/ OpenAuthorizationPage(s)
          \/ FinishAuthorization(s) \/ Redeemed(s) \/ AccountInfo(s)
          \/ Save(s) \/ Forget(s)

Spec == Init /\ [][Next]_vars

-----------------------------------------------------------------------------
\* The refresh token in the stores.
StoredToken ==
    IF enabled /\ wallet # None THEN wallet
    ELSE IF file = None THEN None ELSE file.token

\* While nobody is in the middle of changing the link the stores agree with each
\* other and with what was done last, by whichever window: they hold the key, the
\* token and the owner of the code that was entered last, the owner unless its
\* email never came, or what a widget held whose account other handlers changed
\* while it waited; and nothing is left after forget().
StoreIsLink ==
    Quiet /\ link # Torn =>
        /\ StoredToken = link.token
        /\ config = [key |-> link.key, email |-> link.email]

\* A process that read the stores while nobody changed them has what was stored as
\* the link: an operation asked of a worker then is not turned away. If there is no
\* link, a worker, which only reads when it has none, still has none; a widget that
\* is open keeps the refresh token it had.
LoadSeesLink ==
    \A p \in Processes :
        pc[p] = "loaded" /\ p \in intact /\ link # Torn =>
            /\ m[p].key = link.key /\ m[p].email = link.email
            /\ link.token # None \/ p \in Workers => m[p].refresh = link.token

\* The cache never claims a token was minted for another app's key, whatever was
\* relinked elsewhere while it was being fetched; only a widget whose own handlers
\* changed its key in the meantime mistakes it.
CacheHonest ==
    [][\A p \in Processes :
          (/\ pc[p] = "store" /\ pc'[p] = "idle" /\ cache' \notin {cache, None}
           /\ p \in Workers \/ Innermost(p).code # None)
          => cache'.key = cache'.token.key]_vars

\* "One account at a time. Linking a second account replaces the first.": a
\* worker that read the link while nobody changed it acts for that account.
LinkReplaces ==
    \A w \in Workers :
        Waiting(w, "call") /\ w \in intact /\ link # Torn /\ link.token # None =>
            Innermost(w).token.acct = link.token.acct
==============================================================================
