------------------------------- MODULE Reading -------------------------------
(***************************************************************************)
(* DropboxWorker::stat(), mimetype(), get() and fileSystemFreeSpace(), one  *)
(* after another, on top of the calls that ApiCall promises, with the       *)
(* endpoints of the server and other clients of the account.                *)
(*                                                                         *)
(* There is one entry besides the root, and the quota of the account; both  *)
(* may change while a call runs. A request is answered from what the server *)
(* held at some moment since the call began, whichever attempt that was. A  *)
(* URL is a path as KIO writes it, character by character: "/" or a letter. *)
(***************************************************************************)
EXTENDS RequestPolicy, Integers, SequencesExt

CONSTANTS Urls, Spot,   \* the paths asked for, and the server's for the entry
          MaxBody,      \* bound on the size of a file
          Quotas,       \* records of used, individual and team, in bytes
          MaxChanges    \* bound on what other clients do

VARIABLES phase, streaming, announced, delivered, ok, error     \* of ApiCall

Call == INSTANCE ApiCall WITH Failures <- Kinds \ {"None"}

VARIABLES
    world,      \* the entry and the quota, on the server
    op, url,    \* the operation, and what it is asked of
    told,       \* what the job was told, in order
    code,       \* what the operation returned: "none" before, "ok", a KIO error
    body,       \* the version of the entry that is being downloaded
    changes,    \* history: changes made so far
    seen,       \* history: what the world was since the call began
    cut         \* history: the reply broke off after its status line

callVars == <<phase, streaming, announced, delivered, ok, error>>
vars == <<callVars, world, op, url, told, code, body, changes, seen, cut>>

Operations == {"stat", "mimetype", "get", "freeSpace"}
Absent == [kind |-> "absent", size |-> 0]
Folder == [kind |-> "folder", size |-> 0]
Things == {Absent, Folder} \cup [kind: {"file"}, size: 0..MaxBody]
Worlds == [entry: Things, quota: Quotas]

Slash == "/"

\* The Spot is a path as the server writes it: a slash and a name.
ASSUME ReadingAssumption ==
    /\ Spot \in Seq(STRING) /\ Len(Spot) > 1
    /\ Head(Spot) = Slash /\ Spot[2] # Slash /\ Last(Spot) # Slash
    /\ \A u \in Urls : u \in Seq(STRING)
    /\ MaxBody \in Nat /\ MaxChanges \in Nat
    /\ Quotas \subseteq [used: Nat, individual: Nat, team: Nat]

Codes == {"none", "ok", "NoError", "CannotConnect", "CannotLogin", "DoesNotExist",
          "AlreadyExist", "AccessDenied", "DiskFull", "WorkerDefined",
          "IsDirectory", "UnsupportedAction"}

\* Every variable has its type, no call outlives its operation, and no failure is
\* KIO error 0.
TypeOK ==
    /\ phase \in {"idle", "running"} /\ streaming \in BOOLEAN
    /\ announced \in {0, 1} /\ delivered \in 0..MaxBody
    /\ ok \in BOOLEAN /\ error \in Kinds
    /\ world \in Worlds /\ op \in Operations \cup {"none"} /\ url \in Urls \cup {<<>>}
    /\ code \in Codes \ {"NoError"} /\ (code = "none" <=> phase = "running")
    /\ body \in Things /\ changes \in 0..MaxChanges /\ seen \subseteq Worlds
    /\ cut \in BOOLEAN

-----------------------------------------------------------------------------
(* Paths and errors. *)

\* Variant: one slash is taken off the end.
ApiPathChopOnce(path) ==
    LET chopped == IF path # <<>> /\ Last(path) = Slash THEN Front(path) ELSE path
    IN  IF chopped = <<>> \/ Head(chopped) = Slash THEN chopped ELSE <<Slash>> \o chopped

\* apiPath(): no slash at the end, one at the front, the root is empty.
ApiPath(path) ==
    LET letters == {i \in DOMAIN path : path[i] # Slash}
        chopped == SubSeq(path, 1, IF letters = {} THEN 0 ELSE Max(letters))
    IN  IF chopped = <<>> \/ Head(chopped) = Slash THEN chopped ELSE <<Slash>> \o chopped

ToKioError(kind) ==
    CASE kind = "None" -> "NoError"
      [] kind = "Network" -> "CannotConnect"
      [] kind = "Authentication" -> "CannotLogin"
      [] kind = "NotFound" -> "DoesNotExist"
      [] kind = "AlreadyExists" -> "AlreadyExist"
      [] kind = "AccessDenied" -> "AccessDenied"
      [] kind = "InsufficientSpace" -> "DiskFull"
      [] OTHER -> "WorkerDefined"

\* fromJson(): an entry without a known tag is invalid, and so is an empty
\* object, which is what a reply that was cut off parses as.
Parsed(thing, whole) == IF whole THEN thing ELSE Absent

IsValid(item) == item.kind \in {"file", "folder"}

-----------------------------------------------------------------------------
(* The server, as it was at one moment of the call. *)

\* get_metadata, download: why the entry is refused, {} if it is not.
Refused(w) ==
    CASE ApiPath(url) # Spot \/ w.entry = Absent -> {"not_found"}
      [] op = "get" /\ w.entry.kind = "folder" -> {"not_file"}
      [] OTHER -> {}

\* The ways a call may end in an error. A refusal that breaks off after its
\* status line has no summary.
Refusals ==
    LET summaries == {Refused(w) : w \in IF op = "freeSpace" THEN {} ELSE seen} \ {{}}
    IN  {"Network", "Authentication", "RateLimited", "Server"}
          \cup UNION {{KindOf(409, FALSE, s), KindOf(409, FALSE, {})} : s \in summaries}

Served == {w \in seen : Refused(w) = {}}

-----------------------------------------------------------------------------
Init ==
    /\ Call!Init
    /\ world \in Worlds
    /\ op = "none" /\ url = <<>>
    /\ told = <<>> /\ code = "ok" /\ body = Absent
    /\ changes = 0 /\ seen = {} /\ cut = FALSE

\* What is known of the root without asking the server.
RootEntry(operation) ==
    CASE operation = "stat" -> <<<<"entry", Folder>>>>
      [] operation = "mimetype" -> <<<<"mime", "folder">>>>
      [] operation = "get" -> <<>>

\* requireAccount() sends the job away, or the root is dealt with here.
BeginLocal ==
    /\ phase = "idle"
    /\ op' \in Operations /\ url' \in Urls
    /\ \/ code' = "CannotLogin" /\ told' = <<>>
       \/ /\ op' # "freeSpace" /\ ApiPath(url') = <<>>
          /\ told' = RootEntry(op')
          /\ code' = IF op' = "get" THEN "IsDirectory" ELSE "ok"
    /\ body' = Absent /\ seen' = {} /\ cut' = FALSE
    /\ UNCHANGED <<callVars, world, changes>>

\* The call is made. "KIO wants the MIME type before the first data() call."
BeginCall ==
    /\ op' \in Operations /\ url' \in Urls
    /\ op' = "freeSpace" \/ ApiPath(url') # <<>>
    /\ Call!Begin(op' = "get")
    /\ told' = IF op' = "get" THEN <<<<"mime", "guess">>>> ELSE <<>>
    /\ code' = "none" /\ body' = Absent
    /\ seen' = {world} /\ cut' = FALSE
    /\ UNCHANGED <<world, changes>>

\* Variant: get() ends the stream before it looks at the result.
CallFailedEndsData ==
    /\ \E kind \in Refusals : Call!Fail(kind) /\ code' = ToKioError(kind)
    /\ told' = Append(told, <<"data", 0>>)
    /\ UNCHANGED <<world, op, url, body, changes, seen, cut>>

\* Every operation turns an error of the call into its result.
CallFailed ==
    /\ \E kind \in Refusals : Call!Fail(kind) /\ code' = ToKioError(kind)
    /\ UNCHANGED <<world, op, url, told, body, changes, seen, cut>>

\* What stat() and mimetype() make of an entry.
Described(item) ==
    IF op = "stat" THEN <<"entry", item>> ELSE <<"mime", item.kind>>

\* stat() or mimetype() has its reply.
Metadata ==
    /\ op \in {"stat", "mimetype"}
    /\ Call!Succeed
    /\ \E w \in Served, whole \in BOOLEAN :
          LET item == Parsed(w.entry, whole)
          IN  /\ cut' = ~whole
              /\ IF IsValid(item)
                 THEN told' = <<Described(item)>> /\ code' = "ok"
                 ELSE code' = "DoesNotExist" /\ UNCHANGED told
    /\ UNCHANGED <<world, op, url, body, changes, seen>>

\* onSize, on the first sign of a body: which version of the file this is has
\* been settled by then, and the job learns its size, or 0 if the reply does not
\* say it. Then more is told.
Receive(more) ==
    IF announced > 0
    THEN body' = body /\ told' = told \o more
    ELSE /\ body' \in {w.entry : w \in Served}
         /\ \E size \in {body'.size, 0} : told' = told \o <<<<"total", size>>>> \o more

\* Variant: the callback of get() asks for no more once the job is killed.
AnswersKilled == BOOLEAN

\* What the callback of get() answers.
Answers == {TRUE}

\* A chunk of the file.
Data ==
    /\ \E n \in 1..MaxBody, more \in Answers :
          /\ Call!Deliver(n, more)
          /\ Receive(<<<<"data", n>>>>)
          /\ delivered' <= body'.size
          /\ code' = IF more THEN "none" ELSE ToKioError(error)
    /\ UNCHANGED <<world, op, url, changes, seen, cut>>

\* The download succeeded, whether or not the body was whole.
EndOfData ==
    /\ op = "get"
    /\ Call!Succeed
    /\ Receive(<<<<"data", 0>>>>)
    /\ code' = "ok"
    /\ cut' = (delivered < body'.size)
    /\ UNCHANGED <<world, op, url, changes, seen>>

\* Variant: what is over the quota is counted as available.
AvailableUnclamped(total, used) == total - used

Available(total, used) == Max({0, total - used})

\* fileSystemFreeSpace() has its reply; the allocation may stand under either key.
Space ==
    /\ op = "freeSpace"
    /\ Call!Succeed
    /\ \E w \in seen, whole \in BOOLEAN :
          LET total == IF ~whole THEN 0
                       ELSE IF w.quota.individual # 0 THEN w.quota.individual
                       ELSE w.quota.team
          IN  /\ cut' = ~whole
              /\ IF total = 0
                 THEN code' = "UnsupportedAction" /\ UNCHANGED told
                 ELSE /\ code' = "ok"
                      /\ told' = <<<<"total", total>>,
                                   <<"available", Available(total, w.quota.used)>>>>
    /\ UNCHANGED <<world, op, url, body, changes, seen>>

\* Another client changes the entry or fills the account.
Change ==
    /\ changes < MaxChanges /\ changes' = changes + 1
    /\ world' \in {[world EXCEPT !.entry = e] : e \in Things}
                    \cup {[world EXCEPT !.quota = q] : q \in Quotas}
    /\ seen' = IF phase = "running" THEN seen \cup {world'} ELSE seen
    /\ UNCHANGED <<callVars, op, url, told, code, body, cut>>

Next == \/ BeginLocal \/ BeginCall \/ Data \/ EndOfData
        \/ Metadata \/ Space \/ CallFailed \/ Change

Spec == Init /\ [][Next]_vars

-----------------------------------------------------------------------------
Over == phase = "idle"
HasName == \E i \in DOMAIN url : url[i] # Slash

\* A URL is the Spot, with or without the slash in front, and more at its end.
Names(path) ==
    \E n \in 0..Len(path) :
        /\ \A i \in n + 1..Len(path) : path[i] = Slash
        /\ Spot \in {SubSeq(path, 1, n), <<Slash>> \o SubSeq(path, 1, n)}

\* What stat and mimetype say of an entry was true of it at some moment since
\* the operation began, however the URL was written and whatever was retried;
\* nothing is taken for an entry of another name; and an entry is only said not
\* to exist if it did not at such a moment, or if the reply broke off: "does not
\* exist" is no answer to a failure otherwise.
AnswerWasTrue ==
    Over /\ op # "freeSpace" /\ HasName =>
        /\ code = "DoesNotExist" /\ Names(url) => cut \/ \E w \in seen : w.entry = Absent
        /\ code = "ok" => Names(url)
        /\ code = "ok" /\ op # "get" =>
               \E w \in seen : IsValid(w.entry) /\ told = <<Described(w.entry)>>

\* What a job that reads a file can rely on: the type, one size and the data, in
\* this order; an end of stream if and only if the operation succeeds; no data
\* if it fails; and unless the body broke off, one whole version of the file, of
\* the size that was told, if any was.
Stream ==
    LET At(message) == {i \in DOMAIN told : Head(told[i]) = message}
        ends == {i \in At("data") : told[i] = <<"data", 0>>}
    IN  op = "get" /\ told # <<>> =>
            /\ At("mime") = {1}
            /\ At("total") = IF At("data") = {} THEN {} ELSE {2}
            /\ ends = IF Over /\ code = "ok" THEN {Len(told)} ELSE {}
            /\ Over /\ code # "ok" => At("data") = {}
            /\ Over /\ code = "ok" /\ ~cut =>
                  /\ told[2][2] \in {0, delivered}
                  /\ \E w \in seen : w.entry.kind = "file" /\ w.entry.size = delivered

\* The free space is that of one allocation of an account as it was, and within
\* its size, also when more is used than allocated.
SpaceWasTrue ==
    Over /\ op = "freeSpace" /\ code = "ok" =>
        LET total == told[1][2]
            available == told[2][2]
        IN  /\ available \in 0..total /\ total > 0
            /\ \E w \in seen :
                  /\ total \in {w.quota.individual, w.quota.team}
                  /\ \/ available + w.quota.used = total
                     \/ available = 0 /\ w.quota.used > total
==============================================================================
