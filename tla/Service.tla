------------------------------- MODULE Service -------------------------------
(***************************************************************************)
(* The request handlers of src/service.js, over a blob store (src/blob),   *)
(* the source of facts and the map of live queries, together with the      *)
(* remote session (src/replica/session/remote.js), which puts a query and  *)
(* follows the redirect.                                                   *)
(*                                                                         *)
(* A request is a process that works through its handler; what others do   *)
(* falls between two of its suspensions.  Blobs and queries are named by   *)
(* their references, so that equal contents have one name.  The service    *)
(* may stop at any moment and be started again over the same directory.    *)
(*                                                                         *)
(* Clients may edit any fact, those that the handlers rely on included: an *)
(* edit is what its list of changes comes to, the facts it asserts in the  *)
(* end and those it retracts.                                              *)
(***************************************************************************)
EXTENDS Integers, FiniteSets

CONSTANTS
  Requests,     \* the requests of a behaviour
  Blobs,        \* contents that clients put
  Queries,      \* queries that clients put
  Repeating,    \* those that DAG.encode refuses, for an object used twice
  Others,       \* facts about something else
  Edits,        \* edits that clients make
  None,         \* no request, no content
  MaxCrashes    \* bound on the times the service stops

(* A blob is described by its content type and length; a query is known to the
   service and has its bytes, or something for them that JavaScript takes for
   false. *)
Described(b) == <<"content", b>>
Named(q) == <<"query", q>>
Bytes(q) == <<"bytes", q>>
Empty(q) == <<"empty", q>>
Registration(q) == {Named(q), Bytes(q)}
Other(x) == <<"other", x>>
Facts ==
  {Described(b) : b \in Blobs} \cup {Other(x) : x \in Others}
    \cup {Named(q) : q \in Queries} \cup {Bytes(q) : q \in Queries} \cup {Empty(q) : q \in Queries}

Accepts == {"stream", "selection", "query"}

Ops ==
  [kind : {"blob", "probe"}, of : Blobs]
    \cup [kind : {"query"}, of : Queries, accept : Accepts]
    \cup [kind : {"edit"}, of : Edits] \cup [kind : {"import"}, of : Others]

ASSUME ServiceAssumption ==
  /\ None \notin Requests \cup Ops \cup {"torn", "whole", "reason"}
  /\ Repeating \subseteq Queries /\ MaxCrashes \in Nat
  /\ Edits \subseteq [asserted : SUBSET Facts, retracted : SUBSET Facts]

VARIABLES
  disk,       \* the blob store is a directory (disk.js) and not a map (memory.js)
  blobs,      \* what the store has under the name of a blob
  opener,     \* the request that last opened the file of a blob and writes it
  source,     \* the facts
  stated,     \* history: facts that have been in the source
  retracted,  \* history: facts retracted since they were last asserted, if they were
  claimed,    \* history: facts that an edit was the first to assert
  told,       \* the facts at the last announcement on the session's channel
  live,       \* Service.subscriptions: live[q] is the request that made the channel
  conn,       \* conn[r]: the request that made the channel that r follows
  op,         \* op[r]: what request r is for
  pc,         \* pc[r]: where it stands
  status,     \* status[r]: the last status it was answered with
  body,       \* body[r]: the content it was answered with
  reopened,   \* history: blobs whose file was opened when it was whole or being written
  crashes     \* number of times the service stopped

stores == <<disk, blobs, opener, reopened>>
records == <<source, stated, retracted, claimed>>
facts == <<records, told>>
answers == <<status, body>>
channels == <<live, conn>>
vars == <<stores, facts, channels, op, pc, answers, crashes>>

(* What a request asserts and retracts. *)
Asserted(r) ==
  CASE op[r].kind = "blob" -> {Described(op[r].of)}
    [] op[r].kind = "query" -> Registration(op[r].of)
    [] op[r].kind = "import" -> {Other(op[r].of)}
    [] op[r].kind = "edit" -> op[r].of.asserted
    [] OTHER -> {}

Retracted(r) == IF op[r].kind = "edit" THEN op[r].of.retracted ELSE {}

Changes(r) == Asserted(r) \cup Retracted(r)

Working == {"putting", "transacting", "announcing", "looking", "storing", "loading", "following"}
Ended == {"answered", "lost"}

(* Beyond the types: a file being written is not whole, and a channel in the map
   has a client that follows it. *)
TypeOK ==
  /\ disk \in BOOLEAN /\ crashes \in 0 .. MaxCrashes
  /\ blobs \in [Blobs -> {"absent", "torn", "whole"}]
  /\ opener \in [Blobs -> Requests \cup {None}]
  /\ source \subseteq Facts /\ told \subseteq Facts
  /\ stated \subseteq Facts /\ retracted \subseteq Facts /\ claimed \subseteq stated
  /\ op \in [Requests -> Ops \cup {None}]
  /\ pc \in [Requests -> {"new", "redirected", "found"} \cup Working \cup Ended]
  /\ status \in [Requests -> {0, 200, 303, 400, 404}]
  /\ body \in [Requests -> {None, "torn", "whole", "reason"}]
  /\ reopened \subseteq Blobs
  /\ \A b \in Blobs : opener[b] # None =>
       blobs[b] = "torn" /\ pc[opener[b]] = "putting" /\ op[opener[b]] = [kind |-> "blob", of |-> b]
  /\ live \in [Queries -> Requests \cup {None}] /\ conn \in [Requests -> Requests \cup {None}]
  /\ \A q \in Queries : live[q] # None =>
       \E r \in Requests : pc[r] = "following" /\ conn[r] = live[q] /\ op[r].of = q

Init ==
  /\ disk \in BOOLEAN /\ crashes = 0
  /\ blobs = [b \in Blobs |-> "absent"] /\ opener = [b \in Blobs |-> None]
  /\ source = {} /\ told = {} /\ stated = {} /\ retracted = {} /\ claimed = {}
  /\ live = [q \in Queries |-> None] /\ conn = [r \in Requests |-> None]
  /\ op = [r \in Requests |-> None] /\ pc = [r \in Requests |-> "new"]
  /\ status = [r \in Requests |-> 0] /\ body = [r \in Requests |-> None]
  /\ reopened = {}

-----------------------------------------------------------------------------
Goes(r, place) == pc' = [pc EXCEPT ![r] = place]

(* ok, error and the redirects: a response, and what becomes of the request. *)
Respond(r, code, place) ==
  /\ status' = [status EXCEPT ![r] = code]
  /\ Goes(r, place)
  /\ UNCHANGED body

Begin(r, o) ==
  /\ pc[r] = "new" /\ o \in Ops
  /\ op' = [op EXCEPT ![r] = o]

(* A transaction of the source. *)
Transact(r) ==
  /\ source' = (source \ Retracted(r)) \cup Asserted(r)
  /\ stated' = stated \cup Asserted(r)
  /\ retracted' = (retracted \cup Retracted(r)) \ Asserted(r)
  /\ claimed' = claimed \cup IF op[r].kind = "edit" THEN Asserted(r) \ stated ELSE {}

-----------------------------------------------------------------------------
(* Deviation: nobody waits for the file to be written. *)
PutBlobUnawaited(r, b) ==
  /\ Begin(r, [kind |-> "blob", of |-> b])
  /\ blobs' = [blobs EXCEPT ![b] = IF disk THEN "torn" ELSE "whole"]
  /\ Goes(r, "transacting")
  /\ UNCHANGED <<disk, opener, reopened, facts, channels, answers, crashes>>

(* importBlob: the content is put into the store.  A directory opens the file,
   which cuts it to nothing, and writes it; a map holds it at once. *)
PutBlob(r, b) ==
  /\ Begin(r, [kind |-> "blob", of |-> b])
  /\ IF disk
     THEN /\ blobs' = [blobs EXCEPT ![b] = "torn"]
          /\ opener' = [opener EXCEPT ![b] = r]
          /\ reopened' = IF blobs[b] = "whole" \/ opener[b] # None
                             THEN reopened \cup {b} ELSE reopened
          /\ Goes(r, "putting")
     ELSE /\ blobs' = [blobs EXCEPT ![b] = "whole"]
          /\ Goes(r, "transacting")
          /\ UNCHANGED <<opener, reopened>>
  /\ UNCHANGED <<disk, facts, channels, answers, crashes>>

(* The file is written.  Requests that write it at the same time write the same
   bytes, so that it is whole when the one that cut it last is through. *)
PutEnds(r) ==
  /\ pc[r] = "putting"
  /\ LET b == op[r].of IN
     IF opener[b] = r
     THEN /\ blobs' = [blobs EXCEPT ![b] = "whole"]
          /\ opener' = [opener EXCEPT ![b] = None]
     ELSE UNCHANGED <<blobs, opener>>
  /\ Goes(r, "transacting")
  /\ UNCHANGED <<disk, reopened, facts, channels, op, answers, crashes>>

(* It is not, for want of space say: 400, and the file stays as it is. *)
PutFails(r) ==
  /\ pc[r] = "putting"
  /\ opener' = [b \in Blobs |-> IF opener[b] = r THEN None ELSE opener[b]]
  /\ Respond(r, 400, "answered")
  /\ UNCHANGED <<disk, blobs, reopened, facts, channels, op, crashes>>

(* edit and importJSON: the body is decoded and transacted. *)
Edit(r, e) ==
  /\ Begin(r, [kind |-> "edit", of |-> e])
  /\ Goes(r, "transacting")
  /\ UNCHANGED <<stores, facts, channels, answers, crashes>>

ImportJSON(r, x) ==
  /\ Begin(r, [kind |-> "import", of |-> x])
  /\ Goes(r, "transacting")
  /\ UNCHANGED <<stores, facts, channels, answers, crashes>>

(* Deviation: the commit goes to the source behind the session's back. *)
CommitUntold(r) ==
  /\ pc[r] = "transacting"
  /\ Transact(r)
  /\ IF op[r].kind = "blob" THEN Respond(r, 303, "redirected") ELSE Respond(r, 200, "answered")
  /\ UNCHANGED <<stores, told, channels, op, crashes>>

(* Deviation: the response does not wait for the commit. *)
RespondEarly(r) ==
  /\ pc[r] = "transacting"
  /\ Respond(r, IF op[r].kind = "blob" THEN 303 ELSE 200, "announcing")
  /\ UNCHANGED <<stores, facts, channels, op, crashes>>

(* transact of the session: the source commits, then the commit is announced. *)
Commit(r) ==
  /\ pc[r] = "transacting"
  /\ Transact(r)
  /\ Goes(r, "announcing")
  /\ UNCHANGED <<stores, told, channels, op, answers, crashes>>

(* The response: a redirect to the blob, or the two revisions. *)
Announce(r) ==
  /\ pc[r] = "announcing"
  /\ told' = source
  /\ IF op[r].kind = "blob" THEN Respond(r, 303, "redirected") ELSE Respond(r, 200, "answered")
  /\ UNCHANGED <<stores, records, channels, op, crashes>>

(* What the handlers catch. *)
Fail(r) ==
  /\ pc[r] \in {"transacting", "looking", "storing", "loading"}
  /\ Respond(r, 400, "answered")
  /\ UNCHANGED <<stores, facts, channels, op, crashes>>

-----------------------------------------------------------------------------
(* importQuery: a query that has a channel is known; else the source is asked,
   and the query stored in it if it is not there.  The transaction does not go
   through the session. *)
PutQuery(r, q, accept) ==
  /\ Begin(r, [kind |-> "query", of |-> q, accept |-> accept])
  /\ IF live[q] # None THEN Respond(r, 303, "redirected")
     ELSE Goes(r, "looking") /\ UNCHANGED answers
  /\ UNCHANGED <<stores, facts, channels, crashes>>

LookUp(r) ==
  /\ pc[r] = "looking"
  /\ IF Named(op[r].of) \in source THEN Respond(r, 303, "redirected")
     ELSE Goes(r, "storing") /\ UNCHANGED answers
  /\ UNCHANGED <<stores, facts, channels, op, crashes>>

(* Deviation: the bytes of the query are not stored with it. *)
StoreNameOnly(r) ==
  /\ pc[r] = "storing"
  /\ source' = source \cup {Named(op[r].of)} /\ stated' = stated \cup {Named(op[r].of)}
  /\ retracted' = retracted \ {Named(op[r].of)} /\ UNCHANGED claimed
  /\ Respond(r, 303, "redirected")
  /\ UNCHANGED <<stores, told, channels, op, crashes>>

StoreQuery(r) ==
  /\ pc[r] = "storing"
  /\ Transact(r)
  /\ Respond(r, 303, "redirected")
  /\ UNCHANGED <<stores, told, channels, op, crashes>>

Redirected(r, accept) ==
  pc[r] = "redirected" /\ op[r].kind = "query" /\ op[r].accept = accept

(* The content that the source gives for a query, the first of them if a client
   has added another. *)
Found(q) == Bytes(q) \in source
NotFound(q) == Bytes(q) \notin source \/ Empty(q) \in source

(* The client follows the redirect.  getSelection answers with a selection, or
   with 404 and the reason when evaluating the query fails. *)
GetSelection(r) ==
  /\ Redirected(r, "selection")
  /\ \/ Found(op[r].of) /\ Respond(r, 200, "answered")
     \/ NotFound(op[r].of) /\ Respond(r, 404, "answered")
  /\ UNCHANGED <<stores, facts, channels, op, crashes>>

GetSelectionFails(r) ==
  /\ Redirected(r, "selection")
  /\ status' = [status EXCEPT ![r] = 404] /\ body' = [body EXCEPT ![r] = "reason"]
  /\ Goes(r, "answered")
  /\ UNCHANGED <<stores, facts, channels, op, crashes>>

(* The accept header that query() of the remote session sends is one that get
   does not know, so that it looks for a blob of that name. *)
GetQueryAsBlob(r) ==
  /\ Redirected(r, "query")
  /\ Respond(r, 404, "answered")
  /\ UNCHANGED <<stores, facts, channels, op, crashes>>

(* getSubscription and subscribe: a fork of the channel, if there is one. *)
Follow(r, channel) ==
  /\ conn' = [conn EXCEPT ![r] = channel]
  /\ Respond(r, 200, "following")

Subscribe(r) ==
  /\ Redirected(r, "stream")
  /\ IF live[op[r].of] # None THEN Follow(r, live[op[r].of])
     ELSE Goes(r, "loading") /\ UNCHANGED <<conn, answers>>
  /\ UNCHANGED <<stores, facts, live, op, crashes>>

(* Or else the query is read from the source and evaluated, for which the
   replica encodes it once more; another request may have done so meanwhile,
   whose channel is then no longer the one in the map. *)
Load(r) ==
  /\ pc[r] = "loading"
  /\ \/ NotFound(op[r].of) /\ Respond(r, 404, "answered") /\ UNCHANGED channels
     \/ /\ Found(op[r].of)
        /\ IF op[r].of \in Repeating THEN Respond(r, 400, "answered") /\ UNCHANGED channels
           ELSE Follow(r, r) /\ live' = [live EXCEPT ![op[r].of] = r]
  /\ UNCHANGED <<stores, facts, op, crashes>>

(* Deviation: the entry outlives its channel. *)
LeaveRegistered(r) ==
  /\ pc[r] = "following"
  /\ Goes(r, "answered")
  /\ UNCHANGED <<stores, facts, channels, op, answers, crashes>>

(* A channel that loses its last fork is closed, and what the map has for the
   query is taken out, be it this channel or another. *)
Leave(r) ==
  /\ pc[r] = "following"
  /\ Goes(r, "answered")
  /\ live' = IF \E s \in Requests \ {r} : pc[s] = "following" /\ conn[s] = conn[r]
             THEN live ELSE [live EXCEPT ![op[r].of] = None]
  /\ UNCHANGED <<stores, facts, conn, op, answers, crashes>>

-----------------------------------------------------------------------------
(* head tells of a blob what the facts say of it, or 404 also when asking the
   source fails. *)
Head(r, b) ==
  /\ Begin(r, [kind |-> "probe", of |-> b])
  /\ \/ Described(b) \in source /\ Respond(r, 200, "found")
     \/ Respond(r, 404, "answered")
  /\ UNCHANGED <<stores, facts, channels, crashes>>

(* getBlob: of a file that is being written, what is there.  A range leaves out
   some of the content. *)
GetBlob(r) ==
  /\ pc[r] = "found" \/ (pc[r] = "redirected" /\ op[r].kind = "blob")
  /\ LET b == op[r].of IN
     IF blobs[b] = "absent" THEN Respond(r, 404, "answered")
     ELSE /\ status' = [status EXCEPT ![r] = 200]
          /\ body' = [body EXCEPT ![r] = blobs[b]]
          /\ Goes(r, "answered")
  /\ UNCHANGED <<stores, facts, channels, op, crashes>>

(* The process ends, and with it what it was working on; clients that hold a
   redirect follow it when the service is back.  So does a request whose body
   breaks off: reading it is not caught, and nobody handles the rejection. *)
Crash ==
  /\ disk /\ crashes < MaxCrashes
  /\ crashes' = crashes + 1
  /\ pc' = [r \in Requests |-> IF pc[r] \in Working THEN "lost" ELSE pc[r]]
  /\ opener' = [b \in Blobs |-> None]
  /\ live' = [q \in Queries |-> None] /\ told' = source
  /\ UNCHANGED <<disk, blobs, reopened, records, conn, op, answers>>

-----------------------------------------------------------------------------
Next ==
  \/ \E r \in Requests :
       \/ PutEnds(r) \/ PutFails(r)
       \/ Commit(r) \/ Announce(r) \/ Fail(r)
       \/ LookUp(r) \/ StoreQuery(r)
       \/ GetSelection(r) \/ GetSelectionFails(r) \/ GetQueryAsBlob(r)
       \/ Subscribe(r) \/ Load(r) \/ Leave(r) \/ GetBlob(r)
       \/ \E b \in Blobs : PutBlob(r, b) \/ Head(r, b)
       \/ \E e \in Edits : Edit(r, e)
       \/ \E x \in Others : ImportJSON(r, x)
       \/ \E q \in Queries, accept \in Accepts : PutQuery(r, q, accept)
  \/ Crash

Spec == Init /\ [][Next]_vars

-----------------------------------------------------------------------------
(* What the facts say of a blob is true: it is in the store, and whole unless
   it was put twice, whatever failed or stopped in between.  So is what a
   client gets that asked for the facts, or put the blob, before.  Facts that a
   client has made up in an edit, before the blob was put, are another matter. *)
ContentBehindFacts ==
  /\ \A b \in Blobs : Described(b) \in source \ claimed =>
       blobs[b] = "whole" \/ (blobs[b] = "torn" /\ b \in reopened)
  /\ \A r \in Requests : op[r] # None /\ op[r].kind \in {"blob", "probe"} /\ body[r] = "torn" =>
       op[r].of \in reopened \/ Described(op[r].of) \in claimed

(* A client that puts a query and follows the redirect is told that there is no
   such query only if an edit had it that way: one that retracted the bytes, put
   something empty beside them, or made the query known without them.  It is
   not told so because the channel that was there is gone by then, or the
   service was started anew. *)
Tampered(q) == Bytes(q) \in retracted \/ Empty(q) \in source \/ Named(q) \in claimed

RedirectServed ==
  [][\A r \in Requests :
       op[r] # None /\ op[r].kind = "query" /\ op[r].accept # "query"
         /\ status[r] # 404 /\ status'[r] = 404 =>
       body'[r] = "reason" \/ Tampered(op[r].of)]_vars

(* What was acknowledged is kept, over stops of the service too: what a request
   asserted has been in the source, and what it asserted is there and what it
   retracted is not, unless a later one said otherwise.  A query that is known
   is acknowledged without being stored once more: its bytes are missing then if
   it was an edit that made it known. *)
Confirmed(r) == status[r] = 303 \/ (pc[r] = "answered" /\ status[r] = 200)

AcknowledgedKept ==
  \A r \in Requests : Confirmed(r) =>
    \/ Asserted(r) \subseteq stated /\ Changes(r) \subseteq source \cup retracted
    \/ op[r].kind = "query" /\ Named(op[r].of) \in claimed

(* Subscriptions are told of everything that comes into the source or goes, but
   for queries, which the service stores without an announcement, and for
   commits that are about to be announced. *)
OnlyQueriesUntold ==
  (source \ told) \cup (told \ source) \subseteq
    (UNION {Registration(q) : q \in Queries})
      \cup (UNION {Changes(r) : r \in {s \in Requests : pc[s] = "announcing"}})
=============================================================================
