------------------------------- MODULE Listing -------------------------------
(***************************************************************************)
(* DropboxWorker::listDir(): one listing of a folder, page by page, on top  *)
(* of the calls that ApiCall promises, with the two endpoints of the server *)
(* and other clients that change the folder meanwhile.                      *)
(*                                                                         *)
(* The entries of the folder are numbered in the order the server sorts     *)
(* them in; some are of a kind the worker does not show. A cursor is the    *)
(* number of entries the pages before it held.                              *)
(***************************************************************************)
EXTENDS RequestPolicy, Integers, FiniteSets, Sequences

CONSTANTS MaxEntries,   \* bound on the entries of the folder
          Odd,          \* those that are neither a file nor a folder
          PageSize,     \* entries of a page, 1000 in the code
          MaxChanges    \* bound on the changes other clients make

Entries == 1..MaxEntries

ASSUME ListingAssumption ==
    /\ MaxEntries \in Nat /\ Odd \subseteq Entries
    /\ PageSize \in Nat \ {0} /\ MaxChanges \in Nat

VARIABLES phase, streaming, announced, delivered, ok, error     \* of ApiCall

Call == INSTANCE ApiCall WITH MaxBody <- 0, Failures <- Kinds \ {"None"}

VARIABLES
    folder,     \* the children of the folder, on the server
    exists,     \* the folder is in TREE
    paging,     \* the endpoint is list_folder/continue
    cursor,     \* of the request under way
    reply,      \* the reply on its way back, NoReply before
    listedDirectory,        \* the flag of the code: "." was reported
    reported,   \* the entries passed to listEntries()
    total,      \* totalSize(), NoTotal before
    outcome,    \* what listDir() returned: "none" before, "ok", or an error
    changes,    \* history: changes made so far
    present,    \* history: entries that were there from the first page on
    added, removed,     \* history: entries that came or went since the first page
    cut         \* history: a page was cut off and parsed as an empty one

callVars == <<phase, streaming, announced, delivered, ok, error>>
requestVars == <<paging, cursor>>
resultVars == <<listedDirectory, reported, total, outcome>>
history == <<changes, present, added, removed, cut>>
vars == <<callVars, folder, exists, requestVars, reply, resultVars, history>>

NoReply == [status |-> NoStatus, refused |-> {}, entries |-> <<>>, more |-> FALSE, next |-> 0]
NoTotal == -1

\* Every variable has its type, and only what can be shown is reported.
TypeOK ==
    /\ phase \in {"idle", "running"} /\ ok \in BOOLEAN /\ error \in Kinds
    /\ folder \subseteq Entries /\ exists \in BOOLEAN
    /\ paging \in BOOLEAN /\ cursor \in 0..MaxEntries
    /\ reply # NoReply => phase = "running"
    /\ listedDirectory \in BOOLEAN /\ reported \in Seq(Entries \ Odd)
    /\ total \in Nat \cup {NoTotal}
    /\ outcome \in (Kinds \ {"None"}) \cup {"none", "ok", "CannotLogin"}
    /\ changes \in 0..MaxChanges /\ cut \in BOOLEAN

-----------------------------------------------------------------------------
Init ==
    /\ Call!Init
    /\ folder \in SUBSET Entries /\ exists \in BOOLEAN
    /\ exists \/ folder = {}
    /\ paging = FALSE /\ cursor = 0 /\ reply = NoReply
    /\ listedDirectory = FALSE /\ reported = <<>> /\ total = NoTotal
    /\ outcome = "none"
    /\ changes = 0 /\ present = {} /\ added = {} /\ removed = {} /\ cut = FALSE

\* requireAccount() sends the job away.
TurnAway ==
    /\ phase = "idle" /\ outcome = "none" /\ ~listedDirectory
    /\ outcome' = "CannotLogin"
    /\ UNCHANGED <<callVars, folder, exists, requestVars, reply, listedDirectory,
                   reported, total, history>>

\* The next page is asked for.
Ask ==
    /\ outcome = "none"
    /\ Call!Begin(FALSE)
    /\ UNCHANGED <<folder, exists, requestVars, reply, resultVars, history>>

-----------------------------------------------------------------------------
\* The elements of a set of numbers, from the smallest on.
Sorted(S) ==
    [i \in 1..Cardinality(S) |-> CHOOSE e \in S : Cardinality({x \in S : x < e}) = i - 1]

\* Variant: every entry is taken for a file.
ValidAll(entries) == entries

\* The entries a batch is made of.
Valid(entries) ==
    LET places == Sorted({i \in DOMAIN entries : entries[i] \notin Odd})
    IN  [k \in DOMAIN places |-> entries[places[k]]]

\* Variant: once it pages, it asks with the cursor it has.
NextCursorStuck(r) == IF paging THEN cursor ELSE r.next

\* Where the listing goes on after a page.
NextCursor(r) == r.next

\* Variant: a page with nothing to show is taken for the last one.
HasMoreShown(r) == r.more /\ Valid(r.entries) # <<>>

HasMore(r) == r.more

\* A page arrived: report what is in it, and ask for the next or stop. One that
\* breaks off after its status line does not parse, and an empty object has no
\* entries, no cursor and no more pages.
Page ==
    /\ reply.status = 200
    /\ Call!Succeed
    /\ \E r \in {reply, NoReply} :
          /\ cut' = (cut \/ r = NoReply)
          /\ reported' = reported \o Valid(r.entries)
          /\ IF HasMore(r)
             THEN /\ paging' = TRUE /\ cursor' = NextCursor(r)
                  /\ UNCHANGED <<total, outcome>>
             ELSE /\ outcome' = "ok" /\ total' = Len(reported')
                  /\ UNCHANGED requestVars
    /\ listedDirectory' = TRUE /\ reply' = NoReply
    /\ UNCHANGED <<folder, exists, changes, present, added, removed>>

\* What a refusal is called, whole or cut off.
Refusals == IF reply.status # 409 THEN {}
            ELSE {KindOf(409, FALSE, summary) : summary \in {reply.refused, {}}}

\* The call ends in an error: what the server refused it for, or any other.
Failed ==
    /\ \E kind \in {"Network", "Authentication", "RateLimited", "Server"} \cup Refusals :
          Call!Fail(kind) /\ outcome' = kind
    /\ reply' = NoReply
    /\ UNCHANGED <<folder, exists, requestVars, listedDirectory, reported, total, history>>

-----------------------------------------------------------------------------
\* page(): as many entries as fit, and whether there are more.
Paged(offset) ==
    LET paths == Sorted(folder)
        chunk == SubSeq(paths, offset + 1,
                        IF offset + PageSize < Len(paths) THEN offset + PageSize
                        ELSE Len(paths))
    IN  [status |-> 200, refused |-> {}, entries |-> chunk,
         more |-> offset + Len(chunk) < Len(paths), next |-> offset + Len(chunk)]

\* The server answers an attempt, the first or a later one. list_folder looks for
\* the folder; list_folder/continue does not.
Serve ==
    /\ phase = "running"
    /\ reply' = IF ~paging /\ ~exists
                THEN [NoReply EXCEPT !.status = 409, !.refused = {"not_found"}]
                ELSE Paged(cursor)
    /\ IF paging
       THEN UNCHANGED <<present, added, removed>>
       ELSE present' = folder /\ added' = {} /\ removed' = {}
    /\ UNCHANGED <<callVars, folder, exists, requestVars, resultVars, changes, cut>>

\* Another client adds an entry, removes one, or removes the folder.
Change ==
    /\ changes < MaxChanges /\ changes' = changes + 1
    /\ exists
    /\ \/ \E e \in Entries \ folder :
             folder' = folder \cup {e} /\ added' = added \cup {e}
             /\ UNCHANGED <<exists, removed>>
       \/ \E e \in folder :
             folder' = folder \ {e} /\ removed' = removed \cup {e}
             /\ UNCHANGED <<exists, added>>
       \/ folder' = {} /\ exists' = FALSE /\ removed' = removed \cup folder
             /\ UNCHANGED added
    /\ UNCHANGED <<callVars, requestVars, reply, resultVars, present, cut>>

Next == TurnAway \/ Ask \/ Page \/ Failed \/ Serve \/ Change

\* What DropboxRequest guarantees: a call returns, on its own account.
Spec == Init /\ [][Next]_vars
FairSpec == Spec /\ WF_vars(Ask) /\ WF_vars(Page \/ Failed)

-----------------------------------------------------------------------------
\* An entry that is there from the first page to the last is only missed if one
\* that sorts before it went away meanwhile, which moves it to a page that was
\* fetched already. Retries and entries that are added never hide anything.
ListingComplete ==
    outcome = "ok" /\ ~cut =>
        \A e \in present \ (Odd \cup removed) :
            (\A i \in DOMAIN reported : reported[i] # e) => \E r \in removed : r < e

\* An entry is only reported twice if one that sorts before it was added
\* meanwhile, which moves it to a page that is still to come.
ListingUnique ==
    \A i, j \in DOMAIN reported :
        i < j /\ reported[i] = reported[j] => \E a \in added : a < reported[i]

\* Every listing ends, whatever the network and the other clients do.
ListingReturns == <>(outcome # "none")
==============================================================================
