# A verification of kio-dropbox in TLA+

kio-dropbox is a KIO worker that shows a Dropbox account in Dolphin, with a
setup widget that links an account. This directory holds TLA+ models of its
core, the TLC runs that check them, and proofs that TLAPS checks. Paths below
are those of the repository; `PROJECT.json` maps every definition to its lines.

## Inventory

| Component | State it keeps | Operations |
| --- | --- | --- |
| Request loop: `DropboxApi` (`src/dropboxapi.cpp`) | per call: the attempt, whether a token was refreshed, the reply | `rpc`, `download`, `contentUpload`, all through `send` |
| `DropboxAccount` (`src/dropboxaccount.cpp`) | app key, email, refresh token, access token with its expiry; on disk: config file, KWallet entry or token file, token cache | `load`, `save`, `forget`, `accessToken`, `invalidateAccessToken`, `redeemAuthorizationCode` |
| Worker (`src/kio_dropbox.cpp`) | its account; per operation: cursor, buffer, progress | `listDir`, `stat`, `mimetype`, `get`, `put`, `mkdir`, `del`, `rename`, `copy`, `fileSystemFreeSpace` |
| `SetupWidget` (`src/gui/setupwidget.cpp`) | its account, the page it shows, the PKCE verifier | `refresh`, `openAuthorizationPage`, `finishAuthorization`, `unlink` |
| System Settings module, helper (`src/kcm`, `src/authhelper`) | a widget each | `load`, start and end of the process |
| `DropboxPlaces` (`src/gui/dropboxplaces.cpp`) | the entry in the places file | `isShown`, `setShown` |
| Stand-in for Dropbox (`tests/fake_dropbox.py`) | the tree, upload sessions, fault switches | the token endpoint and the API endpoints the worker uses |

How they interact. The worker calls `requireAccount()` at the top of every
operation and then one or more calls of `DropboxApi`, which asks `DropboxAccount`
for an access token before each attempt and spins a nested event loop until the
reply or a timer ends it. Download data reaches the job through callbacks while
the loop runs. Each worker, the helper and System Settings are processes of
their own; they share the config file, the wallet, the token file and the
token cache without a lock, and never talk to each other. Dropbox is shared with
every other client of the account.

What is hard, and therefore what the models are about:

- *Failure and retries.* A request that timed out is not withdrawn: the server
  may carry it out at any later time. A reply may be lost after its request was
  carried out. A body may break off after its status line. Two kinds of retry
  (token refresh, back-off) share one bounded loop.
- *Interleaving.* Workers, widgets and other clients act between any two steps;
  a process may be killed between any two accesses to the stores. A widget that
  waits in a nested event loop goes on handling events, also those that begin what
  it is waiting for a second time.
- *Partial work.* Uploads in sessions, listings in pages, an overwriting move in
  two requests, `save` and `forget` in several writes.
- *Stale state.* Accounts held in memory, cached tokens, cursors, the checkbox for
  the sidebar.

What makes each component correct:

- request loop: it returns; a retry never replays data that was delivered; the
  size is announced once; the error says what happened; retries are used up;
- upload: an upload is atomic to whoever looks at the target, nothing is replaced
  unless the job allowed it, success means stored, the cursor matches the session;
- file operations: only what an overwrite names is erased; the source survives;
  success is real;
- listing: nothing that stays in place is missed or repeated;
- reading: what is said of an entry was true of it while the operation ran; a
  download is one version of the file, and the stream ends once, at its end;
- account: the stores hold the link that was last made, or none; an undisturbed
  `load` sees it; the cache is not used for another app;
- setup widget: what a call of its own saves, if no other handler came between, is the
  link of the code that was entered; the authorize page waits for a code the account can
  redeem; the checkbox and the sidebar agree;
- sidebar: the entry is there once or not at all.

## Modules

| Module | Models |
| --- | --- |
| `RequestPolicy` | `send`'s decision at the end of an attempt and `errorFromResponse`, without state; used by every module that makes requests |
| `ApiCall` | the abstract specification of one call of `DropboxApi` |
| `DropboxRequest`, `MCDropboxRequest` | one call after another through `send`, `authorize`, `accessToken` |
| `AtomicPut` | the abstract specification of `put` |
| `Upload` | `put` with its read loop, sessions and retries, the upload endpoints, other clients |
| `RemoteTree` | the tree of the server and what the file endpoints do to it, without state |
| `FileOps`, `MCFileOps` | `mkdir`, `del`, `rename`, `copy`, the endpoints, other clients |
| `Listing` | `listDir` on top of `ApiCall`, the two listing endpoints, other clients |
| `Reading`, `MCReading` | `stat`, `mimetype`, `get`, `fileSystemFreeSpace` on top of `ApiCall`, their endpoints, other clients |
| `Account`, `MCAccount` | `DropboxAccount` in any number of workers and setup widgets, and the four stores |
| `SetupFlow`, `MCSetupFlow` | `SetupWidget` with its nested event loops, `DropboxPlaces`, other processes |
| `RequestPolicyProofs`, `DropboxRequestProofs`, `UploadProofs`, `AccountProofs`, `FileOpsProofs`, `SetupFlowProofs`, `ListingProofs`, `ReadingProofs` | the proofs |

`Upload` and `FileOps` have the loop of `send` in them, because what matters there
is which of several attempts the server carried out. `Listing` and `Reading` only need what
a call promises, so they are built on `ApiCall`, and `DropboxRequest` is shown to
implement it. `Account` and `SetupFlow` both have the setup widget with the handlers that
run inside its own calls. `Account` has any number of widgets and workers and takes the stores
one access at a time. `SetupFlow` has one widget and reads or writes a link in one step;
in return it has the authorization pages with their verifiers and the sidebar.

**`RequestPolicy`.** A response is its status (0 if there never was a status
line), `networkFailed`, and the set of words of its `error_summary` that
`errorFromResponse` looks for. `Verdict` is the code from the 401 test to the
end of the loop body; `KindOf` tests in the order of the code, so that
`path/conflict/not_found/` is NotFound.

**`ApiCall`.** A call is idle or running. It may announce a size, deliver data, and ends
well, or in one of a set of errors and then without having delivered anything, or
because the caller stopped it.

**`DropboxRequest`.** `pc` follows `send`: `authorize`, `refresh` (inside
`accessToken`), `wait` (inside `loop.exec()`), `pause`. `Chunk` is the
`readyRead` handler, `Finished` and `Broken` the two ways the loop ends, `Settle`
everything after it in one step. The variables marked history in the module
(bytes delivered, announcements, rejections, ...) are not in the code; the
properties need them. The token may expire between any two steps. Job callbacks
may refuse data, as the contract of `download` allows; the callback of `get`
never does.

**`Upload`.** A byte is its position in the source, so "the whole file" is a
sequence that can be compared. `net` is the set of requests on their way; the
attempt's number stands for the connection, and an answer only reaches a worker
that still waits on it. The server is `tests/fake_dropbox.py`: `finish` takes the
session out of `SESSIONS` before it looks at the offset or the target, and a
request that names an unknown session dies unanswered. `dest` is a name of its
own for each thing that is not the job's: nothing, not even a folder, somebody's.

**`FileOps`.** A path is a sequence of names, the root the empty one, as
`apiPath` makes it; the tree is a function from paths. `Begin` has the checks of
each operation, `First` the delete by which `transfer` clears the way, `Return`
that its result is ignored. `Relocated` moves or copies the subtree as it was. `cargo` is
what is to be carried, for the properties.

**`Listing`.** The entries of the folder are numbered as the server sorts them.
The server answers an attempt (`Serve`) any number of times before the call ends, with
what the folder holds by then, and a cursor is a number of entries, as in the stand-in.
Entries that are neither file nor folder take up room in a page without being
reported.

**`Reading`.** `told` is what the job was sent, in order. The account has one
entry besides the root, and a quota; both change while a call runs, and `seen` is what
they have been since. A URL is a sequence of slashes and names, `ApiPath` is the
function of the code, and `Names` says, for the properties, what it should make of
a URL. A reply that breaks off parses as an empty object, so the entry has no kind, and a
body that breaks off is a shorter one.

**`Account`.** A grant (an account and an app key) stands for a refresh token
and every access token minted from it. Each read or write of a store is a step
(`LoadConfig`, `LoadWallet`, `LoadFile`, `LoadCache`; `SaveConfig`, ...;
`Unlink`, `ForgetConfig`, ...), and `Exit` kills a process anywhere.

`calls` is what a process waits for in nested event loops, innermost last: the code that
was posted, a new access token, or an answer of the API, with the token it was asked with.
`pc` is `idle` whenever an event loop runs, nested or not, so `Refresh`,
`OpenAuthorizationPage`, `FinishAuthorization` and `Unlink` of a widget also run while its
calls wait, if the page has their button or field; they change the account under those calls
and only the innermost call can return. A reply is handled with what was *posted*
(`Refreshed`, `AccountInfo`) and with what the account holds *by then* (`StoreCache` reads
the key anew). `MaxDepth` bounds the calls; `MaxDepth` = 1 still lets the other three handlers run
inside one.

A reply may break off after its status line. The token endpoint's then holds no token
and the call fails; that of `get_current_account` is taken for an answer without an
email, which is saved. A wallet may refuse to open (`WalletFlaky`), the config file and
the token file may fail to be written, and a token that is lost on a full disk is not noticed.

`link` and `intact` are history. `link` is what the last completed `save` or `forget` was
to leave: what the code is for, without the email if its reply broke off; or, if other
handlers ran since the code was given (`code` in a frame is then `None`), whatever the account
object held (`ToSave`). It is `Torn` after a `save` or `forget` that overlapped another, was
cut short, failed half-way, or went past a wallet that stayed closed or a full disk.
`intact` are the processes whose `load`, `save` or `forget` ran undisturbed.
`OpenAuthorizationPage` covers the two pages that lead to it. Whether a token has expired is
decided anew at each look.

**`SetupFlow`.** `calls` is the stack of calls of `finishAuthorization` that wait
in a nested loop: `FinishAuthorization` pushes one (Return in the code field does so
although the button is disabled), and only the innermost can return. A grant also
names the authorization page it was approved on, which stands for the PKCE verifier, and
`redeemed` keeps a code from being good twice. `Save` writes the key and the email, with the
token or, past a wallet or a disk, without it. `OtherLinks` is what other widgets leave, which
may be of several grants.
`setShown` looks at the places file and then changes it, in two steps (`SetShown`,
`Place`), with another process in between. `clean` marks a call during which no other handler
changed the account; `elsewhere` and `raced` say that another process changed the sidebar
since the checkbox was set, and that two calls of `setShown` overlapped.

## Runs

With two workers the largest passing runs (`setup`, `account`) take about two minutes each,
the others half a minute or less.

| Run | Distinct states | Shows |
| --- | --- | --- |
| `request` | 3,681 | no replay, one announcement, consistent results, all retries used, confirmed rejections, termination; `DropboxRequest` implements `ApiCall` |
| `upload` | 43,236 | `Upload` implements `AtomicPut`; cursor, progress, buffer; termination |
| `fileops` | 92,990 | what may be erased, success is real, termination |
| `listing` | 132,443 | what may be missed or repeated, termination |
| `reading` | 60,064 | answers were true, streams are whole and end once, space is within bounds, no failure without an error |
| `account` | 2,202,075 | a worker, a widget whose handlers run inside its calls, and a wallet that may not open: the stores hold what the last change was to leave; an undisturbed `load` sees it; the cache names the right key, but for a widget that changed it meanwhile |
| `two_windows` | 1,064,562 | two widgets at once: the next undisturbed `save` or `forget` makes the stores whole again |
| `setup` | 2,891,601 | a call no other handler disturbed saves the key and the token of its own code, with the right email or none; the authorize page waits for a code the account can redeem; the checkbox and the sidebar agree |

Each property of a passing run has a mutant in `PROJECT.json`: a plausible bug in
one definition that makes the same run fail. The variants stand beside the
definitions they replace, marked `Variant`.

### Where the code and what is said of it differ

Each of these runs checks one sentence of a comment, the README or the test
script, and TLC finds a behaviour of the code that contradicts it. The details
and the quotations are under `findings`.

| Run | What happens |
| --- | --- |
| `success_is_whole` | A download that breaks off after its status line is reported as success, with a truncated file. |
| `link_replaces` | The cache gives a worker the token of the account that was linked before, under the same key. No nested handler takes part. |
| `records_owner` | A handler in the nested loop of `finishAuthorization` changes the account under it (in the trace `refresh()` takes another account's token from the cache), and the link is saved with the email of one account and the token of another. |
| `move_keeps_contents` | The delete that clears the way of an overwriting move times out, arrives after the move and destroys what was moved. |

`move_keeps_contents` needs a request that outlives its timer; nothing in HTTP
or in `QNetworkReply::abort` withdraws one.

The same models have other behaviours a reader may not expect. None of them
contradicts a property that is checked, and the properties are worded so
that they stay visible:

- an upload whose reply was lost meets its own file when it is retried, and is
  reported as a conflict (`AtomicPut` promises nothing after such an error);
- a session chunk may be larger than the chunk size, and not a multiple of 4 MiB, if the
  job delivers parts that do not divide it (`TypeOK` of `Upload` has the bound that does hold);
- a 401 on the last attempt becomes "Dropbox could not be reached", and a token
  endpoint that cannot be reached becomes an authentication error without a retry;
- a page of a listing that breaks off after its status line parses as an empty
  last page (`ListingComplete` excludes it by `cut`), and a reply to `get_metadata` that
  does is "does not exist" (`AnswerWasTrue` does too);
- a download whose reply does not say its size announces 0, where the comment on
  `onSize` says -1;
- a worker that is refreshing while the account is unlinked writes the cache again;
- a reply to `get_current_account` that breaks off after its status line leaves the stored link
  without an email (`setupwidget.cpp:337`); `StoreIsLink` and `CleanLinkIsWhole` allow that;
- a call of `finishAuthorization` that was disturbed by another handler saves whatever the
  account object holds by then: key, email and token may be of three grants.
  `StoreIsLink` says that the stores agree on it, `CleanLinkIsWhole` exempts it (`clean`);
- a widget whose key was changed by a nested handler while a token was on its way writes a
  cache entry with the new key, although the comment at `dropboxaccount.cpp:328` ties the two
  (`CacheHonest` covers workers and undisturbed calls);
- a code whose reply breaks off in a nested loop empties the tokens, also if the linked page
  has come up meanwhile, so that page does not imply a refresh token;
- a wallet that does not open keeps its token when the account is unlinked, and hides
  the one that a later `save` puts into the file; a token file that was opened is not looked at
  again, so on a full disk the widget says "linked" and nothing is stored; and a `save` that fails
  at the token file leaves the config file written (`StoreIsLink` excludes all of them by `Torn`);
- `load` keeps a refresh token that is no longer stored, so an open settings page goes
  on saying "linked" where `setupwidget.h:39`, `dropboxaccount.h:31` and `dropboxkcm.cpp:20`
  suggest it would notice (`LoadSeesLink` covers workers then, not widgets), and an
  access token if the cache has none for the new key;
- the sidebar entry is there twice if two processes looked before either had added it
  (`SidebarOnce` excludes it by `raced`).

The passing properties also say how far the differences go. `SourceSafe` allows an
overwriting transfer to lose its source only if source and target are nested (or
the same), or if a clearing delete was given up on. `CleanLinkIsWhole` allows key, email and
token of different grants only if another handler ran inside the call, and otherwise
only the email to be missing. `StoreIsLink` says nothing of what two windows leave when their
writes overlap, but that the next `save` or `forget` that is left alone repairs it.

### Bounds, and why they are enough

- `MaxRetries` is 4 in `request`, as in the code. In `upload` and `fileops` it is 2, which
  has a first, a repeated and a last attempt; a 401, a back-off and the exhausted
  loop all occur. `Listing` and `Reading` do not count attempts.
  The theorems hold for every value.
- `MaxBody` = 3 in `request`: empty, one chunk, several chunks, a break between two. 2 in
  `reading`: an empty file, a whole and a part.
- `ChunkSize` = 2, `MaxPart` = 2, `MaxSize` = 5: sources below, at and above a
  chunk, exact multiples (empty last chunk), chunks that overshoot, a start, an append and
  a finish. Requests in flight are only bounded by the attempts.
- File operations: two trees of three or four nodes, with every operation between files, folders,
  their own descendants and the root, and one change by somebody else.
- Listing: five entries, one of them not shown, one entry a page, three changes.
  With pages of one, every boundary between two pages occurs.
- Reading: the root and one entry, written with no, one and two slashes around them, and
  another name; five kinds of quota (with room, full, over it, of a team, without an allocation); one change.
- Account: a worker, a widget, two accounts, two keys, and one code redeemed after
  whatever link there was. `MaxDepth` = 2: a call of `finishAuthorization` inside another,
  with all other handlers around and between. Two constraints of `MCAccount` keep that small
  enough: once a handler ran inside a call of a widget, no other process is started or goes
  on until those calls are over (`ReenteredAlone`), and while the link is torn no worker
  runs (`TornAlone`). What is cut is other processes *during* a re-entered call, and workers
  between a link that went wrong and the change that repairs it, when `StoreIsLink` and `LoadSeesLink`
  say nothing anyway; they run before and after both. The theorems need neither.
- In `two_windows` two widgets, two codes, one key, no worker and `MaxDepth` = 1: the question is the order of
  the writes, which the key does not change, and a call inside a call writes like any other;
  the other handlers still run inside one, with `ReenteredAlone`. No access token is kept in the
  cache (`Uncached`: every attempt to write it fails, which the code permits); `account` has the cache.
- The accounts, and in `two_windows` the widgets, are interchangeable, so these runs are reduced by
  symmetry (they check no liveness). Keys are not: one of them is built in.
- Setup: two calls nested in each other, two accounts, two keys; and two events (`MaxEvents`)
  out of pages that are opened (with two, a code may be that of the page before) and acts
  of other processes. The theorems hold for every number of each.
- One `put`, one file operation and one listing per behaviour, in a worker that has
  its account. They share nothing but the account, which `Account` models.

`CHECK_DEADLOCK FALSE` stands in `fileops`, `move_keeps_contents` and `listing`, where the
one operation of a behaviour ends.

### Fairness

Liveness assumes that timers run out and that the job does its part, nothing
about the network or the server:

- `Broken`/`Lose`: the 120 s timer of `send`. It is restarted whenever bytes move,
  so it may never fire while a transfer progresses; bodies are finite. `TokenReply`: the 30 s timer of
  `waitFor`. `Resume`: the timer of `pause`. `Authorize`, `Post`, `Begin`: local steps.
- `ReadPart`, `ReadEnd`: the job answers `dataReq()`. KIO kills the worker otherwise.
- `Ask`, and the end of a call (`Page`, `Failed`), in `Listing`: a local step, and
  what `CallReturns` shows of `DropboxRequest` under the fairness above.

No fairness is assumed of `Finished`, `Receive`, `Serve`, of other clients, or of a user.

## Proofs

TLAPS checks these for every value of the constants.

| Theorem | Of |
| --- | --- |
| `TypeCorrect`, `NoReplay`, `AnnouncedOnce`, `ResultIsConsistent`, `Exhausted`, `Confirmed`, `Refinement`, `CallIsBounded` | `DropboxRequest` |
| `TypeCorrect`, `NeverTorn`, `SuccessIsStored`, `AbortIsClean`, `ReplaceIsAllowed`, `Refinement`, `CursorAgrees`, `ProgressIsReal`, `PutIsBounded` | `Upload` |
| `TypeCorrect`, `SuccessIsDone`, `TargetOnly`, `SourceIsSafe`, `OperationIsBounded` | `FileOps` |
| `TypeCorrect`, `NothingMissed`, `NothingTwice`, `CallsOnly`, `ListingIsBounded` | `Listing` |
| `TypeCorrect`, `AnswersAreTrue`, `StreamInOrder`, `SpaceIsTrue`, `CallsOnly` | `Reading` |
| `TypeCorrect`, `CacheIsHonest`, `StoresHoldLink`, `LoadIsWhole` | `Account` |
| `TypeCorrect`, `PageFits`, `LinkIsWhole`, `EntryOnce`, `CheckboxTells` | `SetupFlow` |

Each rests on an inductive invariant, named in the module, and one lemma per action.

*Requests.* The properties talk about a call that has returned; they are not inductive
because they do not say what a running loop looks like. `IInv` adds
`Looping` (no result is set, an attempt is left, the 401s seen are 0 or 1 as
`refreshed` says), `Fresh` (what was delivered is what arrived in *this* attempt,
and only a 200 has a body, so no loop goes round with data delivered) and
`Minted` (after a 401 nothing is posted before the token endpoint answered).
`Settle`, with all its outcomes, is treated once for `Finished` and `Broken`.
`Refinement` shows that `send` implements `ApiCall`: attempts, tokens, pauses and
status lines are hidden, and what the caller sees is one answer, or one error that
came before any of it. `Fresh` is what it takes: a loop that goes round has delivered nothing.

*Uploads.* That the target is never torn depends on requests that are long on
their way. `IInv` says that the buffer is the part of the source between the
cursor and what was read (`Buffered`), that every request in flight carries the
part its cursor names (`Carried`), and that every session holds a prefix of the source
(`Prefixes`): a chunk that is accepted because the offset matches then extends a
prefix to a prefix, whichever attempt it came from. `Final` says that nothing is
or can be stored before the last request was made, which is what a failing
source needs; `Replied` that a success on its way back was stored. The lemmas
about `Slice` (type, concatenation, empty slice) are proved from the sequence
theorems of the library. `Refinement` shows that every step of `Upload` is a step
of `AtomicPut` or invisible to it, under the substitution at the end of `Upload`.

*The cursor of an upload.* `CursorInv` says what requests that were given up on can
still do: an append or a finish that is on its way names the session of the cursor, and is
the request that is being made, or an append from before the cursor (`Cursors`). The
server turns the second away, and of several attempts at the first it accepts one, so
while an append is asked for the session holds what it held or the chunk more (`InStep`).
For that a chunk must not be empty (`NotEmpty`), or two attempts would both be accepted.
`Acks` says that an answer that reports success is true.

*File operations.* That nothing but a delete erases anything is a fact about the tree:
`move_v2` and `copy_v2` would lose what is below their target if there were anything
there without the target itself, and `NoOrphans` says that there never is, which takes the
`HasParent` of a new file of others. Which requests may be on their way is `Asked`: the
clearing delete, the operation itself once its turn has come, and nothing else, so a delete
is known to come from `del` or from an overwriting `rename` or `copy`. For `SourceIsSafe` the
delete must also come before anything was carried to the target. `GivenUp` says that a
clearing delete on its way is either the one that is waited for or was given up on, and
`InPlace` that while it is waited for everything that is to be carried is still below the
source; what is erased then lies below source and target, so one holds the other
(`PrefixOrder`). The lemmas about prefixes and about subtrees that are taken from one
place and put in another (`Replanted`) are proved from the sequence theorems of the library.

*Listings.* A cursor is a number of entries, so the argument counts: `Ahead(e)` is how many
entries of the folder sort before `e`. `Between` says that what was reported has fewer ahead of
it than the cursor says, or was pushed back by something that came, and that what is still to
be reported has at least as many, or was pulled forward by something that went. `OnItsWay` says
the same of the place after the page that is on its way, because the folder may change before it
arrives, and that a page which promises more is not empty. Other clients change `Ahead` by one
at a time, in the direction `added` and `removed` tell. The pages are cut from `Sorted(folder)`,
in which an element's place is the number of smaller ones (`SortedFacts`): no two elements have
the same, so every place is taken.

*Reading.* `PathFacts` says that `apiPath` makes the Spot of a URL if and only if the URL
names it: any number of slashes at the end, one or none in front. It takes a longest prefix that does not
end in a slash, which exists because the numbers up to a length are well-founded. The
rest follows one download: what the job was told is type, size and data (`Ordered`); the end
is the last message, of a success only (`Ended`); if nothing was announced nothing more was
told (`Announced`), which is why a failure, possible only then, comes before any data; what is
handed over is of one version (`OneVersion`), of the size that was told (`Sized`), and all of it unless the reply
broke off (`WholeVersion`).

*Composition.* `Listing` and `Reading` are built on the abstract call. `CallsOnly` shows of
each that it uses no other: its steps are steps of `ApiCall` or invisible to it, its errors
among those `errorFromResponse` has. `Refinement` of `DropboxRequest` is the other half.

*How long it takes.* Liveness is beyond the prover; that nothing goes on for ever by its own
doing is not. `CallIsBounded`, `PutIsBounded`, `OperationIsBounded` and `ListingIsBounded` give
each loop a measure (`Stage`, `Left`): the attempts that are left and the place in the attempt,
the bytes still to be read, the entries behind the cursor. Each step of the worker makes it
smaller, whatever is answered, and it is 0 exactly when the operation is over; the steps of the
server, of other clients and of the clock leave it alone. What TLC adds on the small instances is that, under the
fairness above, some step of the worker is always taken.

*Accounts.* `IInv` is about each process by itself, for calls nested to any depth. `Stack` says
what its calls are: only the innermost can be undisturbed, and only while no other handler is
at work; what was posted for a code, or with a token, stays in the frame until the answer is
there. `Fits` says what an undisturbed call may rely on: the account has the key of its code
and, once the code was redeemed, holds the tokens for it and nothing else to ask with, so that
the email it gets is the owner's or missing. `Holds` puts these together with what a worker relies on:
nothing nests in a worker, so the key it asked with is the key it stores under. No other
process touches any of it, and `OwnStep` says once what a step of one process preserves of all
of them. `CacheIsHonest` is an action property: what `Fits` and `WorkerHolds` say at the point
where the entry is written.

*The link.* `LinkInv` adds, for the processes in `intact`, what they have written (`Wrote`) and
read (`HasRead`) so far, whatever is in the stores. It is inductive because of `Alone`: while a
widget is midway, that widget is the only one that can be undisturbed, so nobody else writes
between what `Wrote` says and the end of `save` or `forget`; and a process that reads and is
undisturbed reads while nobody is midway, so what it reads is one link. `ToSaveIsHeld` ties
this to the codes: what a widget is to store according to the code it was given is what its
account holds when it stores, by `Fits` if the call was undisturbed. A wallet that does not open is in all of
it: what `save` put into the file then counts.

*Setup widgets.* Calls of `finishAuthorization` nest, and each changes the account of
those it was made from. `CallsFit` says what a call may rely on while it is clean: the
account has the key it had, and after its code was redeemed it holds the tokens of that
code and nothing else to ask with. All calls but the innermost lose `clean` when the
account changes, and so one that saves and is still clean saves its own grant, with its
owner's email or none. What other widgets leave is arbitrary. For the
sidebar, `SidebarInv` says that what a call of `setShown` has seen is still so if no other
overlapped it (`Looked`), and that the checkbox asks for what it shows (`Ticked`).

The assumptions on the constants are the named `ASSUME`s of the modules; TLC
evaluates them in the runs. `TreesAssumption` says what an account is: everything is in a
folder, and, so that a file can be followed through moves, no two files of the
beginning have the same content. Other clients may write the same content in several places,
which is why `cargo` leaves theirs out. Those about `None`, `Torn`, `Absent`, `Orphan` and
`Theirs` only say that these are not tokens, links, files or calls; the others bound the
constants from below (`BuiltIn` is a key, bounds are numbers).

Those of `Listing` and `Reading` say what a Spot is (a slash and a name), that a page holds at
least one entry, and that quotas are numbers.

Not proved, only model-checked: that the operations do return (`CallReturns`, `PutReturns`,
`OperationReturns`, `ListingReturns`). Liveness under fairness is beyond the prover; the four
theorems on how long it takes are the part of it that is proved.


## What is not modelled

- The strings: names, dates and icons of an entry, `asciiJson` (an escape per character that
  no state depends on), messages, URLs, headers. `apiPath` is modelled, in `Reading`.
- The bytes of a download and how its MIME type is guessed; only the order and the
  length of what the job is sent.
- Widgets as such: layout, texts, the busy cursor. The page for a key of one's own is merged
  with the connect page. The dialogs (an error, the browser that did not open, the question
  before `unlink`) are modal: while one is open no other handler of the widget runs, and a call
  that waits further out cannot return, so a handler and its dialog are one step.
- The wallet's own window: `openWallet` in mode `Synchronous` is external, and is taken to
  run no handler of the widget.
- `forget` ignores files it cannot remove; that they can be removed is assumed.
- A widget that is destroyed while one of its nested loops runs.
- `--status` of the helper, which prints what is read; and the offer of a worker to start the
  helper, which it makes once (`m_offeredSetup`), and which changes no state of the account.
- Real Dropbox: path case, `strict_conflict`, sessions that expire, and how
  it answers a repeated `finish`. The server is the stand-in of the tests.
- The length of time: pauses, `Retry-After`, and the minute of slack are the steps
  `Resume` and `Expire`. Half-written files: the cache is ignored if it does not parse,
  and so modelled as absent; the config file is written by `QSettings` under a
  lock; the token file holds the token, or nothing if the disk was full.
- `KFilePlacesModel`, beyond the number of entries for `dropbox:/`.
- A key is assumed to be built in, as in the packages.

## Plan

Done, in this order: `RequestPolicy`, `DropboxRequest`, `AtomicPut`, `Upload`,
their proofs; `Account` with the proof of `CacheHonest`; `RemoteTree`, `FileOps`;
`ApiCall` with the proof that `DropboxRequest` implements it; `Reading`, `Listing` on
top of it; `SetupFlow`; `Account` with two windows and a wallet that does not open; proofs about
the cursor of an upload, the link of `Account`, `FileOps`, `SetupFlow`, `Listing` and
`Reading`; and bounds on the steps of a call, an upload, a file operation and a listing.

What is left are proofs:

1. How far two windows or a killed process can tear a link: which mixtures of accounts,
   keys and emails the stores of `Account` can hold while `link` is `Torn`.
2. What `SetupFlow` saves in terms of `Account`: its `save` in one step as an abstraction of
   the writes one store at a time.

