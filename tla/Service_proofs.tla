---------------------------- MODULE Service_proofs ----------------------------
(***************************************************************************)
(* Proofs about the request handlers, for any number of requests, contents *)
(* and queries, whatever facts clients edit and any number of times the    *)
(* service stops: what was acknowledged is kept unless it is edited, what  *)
(* facts say of a blob is true unless a client has made them up, redirects *)
(* are served unless the query is tampered with, and only queries are      *)
(* untold.                                                                 *)
(***************************************************************************)
EXTENDS Service, TLAPS

(* What requests are for, by what they change. *)
BlobOps == [kind : {"blob"}, of : Blobs]
ProbeOps == [kind : {"probe"}, of : Blobs]
QueryOps == [kind : {"query"}, of : Queries, accept : Accepts]
EditOps == [kind : {"edit"}, of : Edits]
ImportOps == [kind : {"import"}, of : Others]
ChangeOps == EditOps \cup ImportOps

(* Where a request stands tells what it is for. *)
Stands(r) ==
  /\ pc[r] = "new" => op[r] = None /\ status[r] = 0 /\ body[r] = None
  /\ pc[r] # "new" => op[r] \in Ops
  /\ pc[r] = "putting" => op[r] \in BlobOps
  /\ pc[r] \in {"transacting", "announcing"} => op[r] \in BlobOps \cup ChangeOps
  /\ pc[r] \in {"looking", "storing", "loading", "following"} => op[r] \in QueryOps
  /\ pc[r] = "redirected" => op[r] \in BlobOps \cup QueryOps
  /\ pc[r] = "found" => op[r] \in ProbeOps

(* What a request has changed that is acknowledged, or about to be; a query that
   is known may have been made known by an edit. *)
Entered(r) ==
  \/ Asserted(r) \subseteq stated /\ Changes(r) \subseteq source \cup retracted
  \/ op[r].kind = "query" /\ Named(op[r].of) \in claimed

Kept(r) ==
  /\ status[r] \in {200, 303} \/ pc[r] \in {"announcing", "redirected", "loading", "following"} =>
       Entered(r)
  /\ pc[r] = "found" => Described(op[r].of) \in stated

(* A file is whole, or it was opened twice. *)
Sound(b) == blobs[b] = "whole" \/ (blobs[b] = "torn" /\ b \in reopened)

(* So is one that a request writes which did not open it last, or that a request
   is through with. *)
Put(r) ==
  /\ pc[r] = "putting" => opener[op[r].of] = r \/ Sound(op[r].of)
  /\ pc[r] = "transacting" /\ op[r] \in BlobOps => Sound(op[r].of)

(* A channel is followed for the query it was made for. *)
ChannelOf(r) ==
  pc[r] = "following" =>
    /\ conn[r] \in Requests /\ pc[conn[r]] # "new"
    /\ op[conn[r]] \in QueryOps /\ op[conn[r]].of = op[r].of

(* A query that was ever known had its bytes, and a blob that was ever described
   its content, unless it was an edit that said so first. *)
Paired == \A q \in Queries : Named(q) \in stated \ claimed => Bytes(q) \in stated
Backed == \A b \in Blobs : Described(b) \in stated \ claimed => Sound(b)

(* What was in the source and is not is retracted. *)
Held == source \subseteq stated /\ stated \subseteq source \cup retracted

(* What clients got of a blob. *)
Gotten ==
  \A r \in Requests : op[r] # None /\ op[r].kind \in {"blob", "probe"} /\ body[r] = "torn" =>
    op[r].of \in reopened \/ Described(op[r].of) \in claimed

(* A map has no files that are written. *)
InMemory == ~disk => \A b \in Blobs : opener[b] = None

Requested == \A r \in Requests : Stands(r) /\ Kept(r) /\ Put(r) /\ ChannelOf(r)

IInv ==
  /\ TypeOK /\ Requested /\ Paired /\ Backed /\ Held /\ InMemory
  /\ Gotten /\ OnlyQueriesUntold

-----------------------------------------------------------------------------
LEMMA OpsSplit ==
  /\ Ops = BlobOps \cup ProbeOps \cup QueryOps \cup ChangeOps
  /\ None \notin Ops
BY ServiceAssumption DEF Ops, BlobOps, ProbeOps, QueryOps, ChangeOps, EditOps, ImportOps

LEMMA OpsKinds ==
  /\ \A o \in BlobOps : o.kind = "blob" /\ o.of \in Blobs /\ o = [kind |-> "blob", of |-> o.of]
  /\ \A o \in ProbeOps : o.kind = "probe" /\ o.of \in Blobs
  /\ \A o \in QueryOps : o.kind = "query" /\ o.of \in Queries /\ o.accept \in Accepts
  /\ \A o \in EditOps : /\ o.kind = "edit" /\ o.of \in Edits
                       /\ o.of.asserted \subseteq Facts /\ o.of.retracted \subseteq Facts
  /\ \A o \in ImportOps : o.kind = "import" /\ o.of \in Others
BY ServiceAssumption DEF BlobOps, ProbeOps, QueryOps, EditOps, ImportOps

(* What each kind of request changes. *)
LEMMA ChangesOf ==
  ASSUME NEW r \in Requests
  PROVE  /\ op[r] \in BlobOps => Asserted(r) = {Described(op[r].of)} /\ Retracted(r) = {}
         /\ op[r] \in QueryOps => Asserted(r) = Registration(op[r].of) /\ Retracted(r) = {}
         /\ op[r] \in ImportOps => Asserted(r) = {Other(op[r].of)} /\ Retracted(r) = {}
         /\ op[r] \in EditOps =>
              Asserted(r) = op[r].of.asserted /\ Retracted(r) = op[r].of.retracted
         /\ op[r] \in ProbeOps => Asserted(r) = {} /\ Retracted(r) = {}
<1>1. op[r] \in BlobOps => Asserted(r) = {Described(op[r].of)} /\ Retracted(r) = {}
  BY OpsKinds DEF Asserted, Retracted
<1>2. op[r] \in QueryOps => Asserted(r) = Registration(op[r].of) /\ Retracted(r) = {}
  BY OpsKinds DEF Asserted, Retracted
<1>3. op[r] \in ImportOps => Asserted(r) = {Other(op[r].of)} /\ Retracted(r) = {}
  BY OpsKinds DEF Asserted, Retracted
<1>4. op[r] \in EditOps =>
        Asserted(r) = op[r].of.asserted /\ Retracted(r) = op[r].of.retracted
  BY OpsKinds DEF Asserted, Retracted
<1>5. op[r] \in ProbeOps => Asserted(r) = {} /\ Retracted(r) = {}
  BY OpsKinds DEF Asserted, Retracted
<1> QED
  BY <1>1, <1>2, <1>3, <1>4, <1>5

LEMMA ChangesFacts ==
  ASSUME NEW r \in Requests, op[r] \in Ops
  PROVE  Asserted(r) \subseteq Facts /\ Retracted(r) \subseteq Facts
<1>1. op[r] \in BlobOps \cup ProbeOps \cup QueryOps \cup EditOps \cup ImportOps
  BY OpsSplit DEF ChangeOps
<1>2. op[r] \in EditOps => Asserted(r) \subseteq Facts /\ Retracted(r) \subseteq Facts
  BY OpsKinds, ChangesOf
<1>3. op[r] \in BlobOps \cup ProbeOps \cup QueryOps \cup ImportOps =>
        Asserted(r) \subseteq Facts /\ Retracted(r) \subseteq Facts
  BY OpsKinds, ChangesOf DEF Facts, Registration
<1> QED
  BY <1>1, <1>2, <1>3

(* What a transaction does to the source and to what is known of it. *)
LEMMA TransactGrows ==
  ASSUME NEW r \in Requests, Transact(r)
  PROVE  /\ stated \subseteq stated' /\ claimed \subseteq claimed'
         /\ source \cup retracted \subseteq source' \cup retracted'
         /\ Asserted(r) \subseteq stated' /\ Changes(r) \subseteq source' \cup retracted'
         /\ Held => Held'
BY DEF Transact, Held, Changes

LEMMA InitInv == Init => IInv
<1> SUFFICES ASSUME Init PROVE IInv
  OBVIOUS
<1>1. TypeOK
  BY ServiceAssumption DEF Init, TypeOK, Facts, Working, Ended
<1>2. Requested
  BY ServiceAssumption DEF Init, Requested, Stands, Kept, Put, ChannelOf
<1>3. Paired /\ Backed /\ Held /\ InMemory /\ Gotten /\ OnlyQueriesUntold
  BY ServiceAssumption DEF Init, Paired, Backed, Held, InMemory, Gotten, OnlyQueriesUntold
<1> QED
  BY <1>1, <1>2, <1>3 DEF IInv

-----------------------------------------------------------------------------
(* Type correctness, action by action.  The types proper first. *)
Types ==
  /\ disk \in BOOLEAN /\ crashes \in 0 .. MaxCrashes
  /\ blobs \in [Blobs -> {"absent", "torn", "whole"}]
  /\ opener \in [Blobs -> Requests \cup {None}]
  /\ source \subseteq Facts /\ told \subseteq Facts
  /\ stated \subseteq Facts /\ retracted \subseteq Facts /\ claimed \subseteq stated
  /\ op \in [Requests -> Ops \cup {None}]
  /\ pc \in [Requests -> {"new", "redirected", "found"} \cup Working \cup Ended]
  /\ status \in [Requests -> {0, 200, 303, 400, 404}]
  /\ body \in [Requests -> {None, "torn", "whole", "reason"}]
  /\ reopened \subseteq Blobs
  /\ live \in [Queries -> Requests \cup {None}] /\ conn \in [Requests -> Requests \cup {None}]

Openers == \A b \in Blobs : opener[b] # None =>
  blobs[b] = "torn" /\ pc[opener[b]] = "putting" /\ op[opener[b]] = [kind |-> "blob", of |-> b]

Followed == \A q \in Queries : live[q] # None =>
  \E r \in Requests : pc[r] = "following" /\ conn[r] = live[q] /\ op[r].of = q

LEMMA TypeParts == TypeOK <=> Types /\ Openers /\ Followed
BY DEF TypeOK, Types, Openers, Followed

(* A request begins. *)
Begins(r) ==
  \/ \E b \in Blobs : PutBlob(r, b) \/ Head(r, b)
  \/ \E q \in Queries, accept \in Accepts : PutQuery(r, q, accept)
  \/ (\E e \in Edits : Edit(r, e)) \/ (\E x \in Others : ImportJSON(r, x))

(* It goes on with the source, *)
Transacts(r) == Commit(r) \/ Announce(r) \/ Fail(r) \/ LookUp(r) \/ StoreQuery(r)

(* reads what it was redirected to, *)
Reads(r) == GetSelection(r) \/ GetSelectionFails(r) \/ GetQueryAsBlob(r) \/ GetBlob(r)

(* or deals with a channel, or with a file. *)
Follows(r) == Subscribe(r) \/ Load(r) \/ Leave(r)
Writes(r) == PutEnds(r) \/ PutFails(r)

LEMMA NextCases ==
  ASSUME Next
  PROVE  Crash \/ \E r \in Requests :
           Begins(r) \/ Transacts(r) \/ Reads(r) \/ Follows(r) \/ Writes(r)
BY DEF Next, Begins, Transacts, Reads, Follows, Writes

LEMMA BeginsTypes == ASSUME IInv, NEW r \in Requests, Begins(r) PROVE Types'
<1> USE DEF Types, Working, Ended, Begin, Goes, Respond, stores, facts, records, channels, answers
<1>1. Types
  BY TypeParts DEF IInv
<1>2. ASSUME NEW b \in Blobs, PutBlob(r, b) PROVE Types'
  BY <1>1, <1>2 DEF PutBlob
<1>3. ASSUME NEW b \in Blobs, Head(r, b) PROVE Types'
  BY <1>1, <1>3 DEF Head
<1>4. ASSUME NEW q \in Queries, NEW accept \in Accepts, PutQuery(r, q, accept) PROVE Types'
  BY <1>1, <1>4 DEF PutQuery
<1>5. ASSUME NEW e \in Edits, Edit(r, e) PROVE Types'
  BY <1>1, <1>5 DEF Edit
<1>6. ASSUME NEW x \in Others, ImportJSON(r, x) PROVE Types'
  BY <1>1, <1>6 DEF ImportJSON
<1> QED
  BY <1>2, <1>3, <1>4, <1>5, <1>6 DEF Begins

LEMMA TransactsTypes == ASSUME IInv, NEW r \in Requests, Transacts(r) PROVE Types'
<1> USE DEF Types, Working, Ended, Goes, Respond, stores, facts, records, channels, answers
<1>1. Types /\ Stands(r)
  BY TypeParts DEF IInv, Requested
<1>2. ASSUME Commit(r) PROVE Types'
  <2>1. Asserted(r) \subseteq Facts /\ Retracted(r) \subseteq Facts
    BY <1>1, <1>2, OpsSplit, ChangesFacts DEF Commit, Stands
  <2>2. Transact(r) /\ UNCHANGED told
    BY <1>2 DEF Commit
  <2>3. /\ source' \subseteq Facts /\ told' \subseteq Facts /\ stated' \subseteq Facts
        /\ retracted' \subseteq Facts /\ claimed' \subseteq stated'
    BY <1>1, <2>1, <2>2 DEF Transact
  <2> QED
    BY <1>1, <1>2, <2>3 DEF Commit
<1>3. ASSUME Announce(r) PROVE Types'
  BY <1>1, <1>3 DEF Announce
<1>4. ASSUME Fail(r) PROVE Types'
  BY <1>1, <1>4 DEF Fail
<1>5. ASSUME LookUp(r) PROVE Types'
  BY <1>1, <1>5 DEF LookUp
<1>6. ASSUME StoreQuery(r) PROVE Types'
  <2>1. Asserted(r) \subseteq Facts /\ Retracted(r) \subseteq Facts
    BY <1>1, <1>6, OpsSplit, ChangesFacts DEF StoreQuery, Stands
  <2>2. Transact(r) /\ UNCHANGED told
    BY <1>6 DEF StoreQuery
  <2>3. /\ source' \subseteq Facts /\ told' \subseteq Facts /\ stated' \subseteq Facts
        /\ retracted' \subseteq Facts /\ claimed' \subseteq stated'
    BY <1>1, <2>1, <2>2 DEF Transact
  <2> QED
    BY <1>1, <1>6, <2>3 DEF StoreQuery
<1> QED
  BY <1>2, <1>3, <1>4, <1>5, <1>6 DEF Transacts

LEMMA ReadsTypes == ASSUME IInv, NEW r \in Requests, Reads(r) PROVE Types'
<1> USE DEF Types, Working, Ended, Goes, Respond, stores, facts, records, channels, answers
<1>1. Types /\ Stands(r)
  BY TypeParts DEF IInv, Requested
<1>2. ASSUME GetSelection(r) \/ GetSelectionFails(r) \/ GetQueryAsBlob(r) PROVE Types'
  BY <1>1, <1>2 DEF GetSelection, GetSelectionFails, GetQueryAsBlob, Redirected
<1>3. ASSUME GetBlob(r) PROVE Types'
  <2>1. op[r] \in BlobOps \cup ProbeOps
    BY <1>1, <1>3, OpsKinds DEF GetBlob, Stands
  <2>2. op[r].of \in Blobs
    BY <2>1, OpsKinds
  <2> QED
    BY <1>1, <1>3, <2>2 DEF GetBlob
<1> QED
  BY <1>2, <1>3 DEF Reads

LEMMA FollowsTypes == ASSUME IInv, NEW r \in Requests, Follows(r) PROVE Types'
<1> USE DEF Types, Working, Ended, Goes, Respond, Follow, stores, facts, records, channels, answers
<1>1. Types /\ Stands(r)
  BY TypeParts DEF IInv, Requested
<1>2. op[r] \in QueryOps /\ op[r].of \in Queries
  BY <1>1, OpsKinds DEF Follows, Subscribe, Load, Leave, Redirected, Stands
<1>3. ASSUME Subscribe(r) PROVE Types'
  BY <1>1, <1>2, <1>3 DEF Subscribe, Redirected
<1>4. ASSUME Load(r) PROVE Types'
  BY <1>1, <1>2, <1>4 DEF Load
<1>5. ASSUME Leave(r) PROVE Types'
  BY <1>1, <1>2, <1>5 DEF Leave
<1> QED
  BY <1>3, <1>4, <1>5 DEF Follows

LEMMA WritesTypes == ASSUME IInv, NEW r \in Requests, Writes(r) PROVE Types'
<1> USE DEF Types, Working, Ended, Goes, Respond, stores, facts, records, channels, answers
<1>1. Types /\ Stands(r)
  BY TypeParts DEF IInv, Requested
<1>2. op[r].of \in Blobs
  BY <1>1, OpsKinds DEF Writes, PutEnds, PutFails, Stands
<1>3. ASSUME PutEnds(r) PROVE Types'
  BY <1>1, <1>2, <1>3 DEF PutEnds
<1>4. ASSUME PutFails(r) PROVE Types'
  BY <1>1, <1>4 DEF PutFails
<1> QED
  BY <1>3, <1>4 DEF Writes

LEMMA CrashTypes == ASSUME IInv, Crash PROVE Types'
<1>1. Types
  BY TypeParts DEF IInv
<1> QED
  BY <1>1, ServiceAssumption DEF Crash, Types, Working, Ended, answers, records

LEMMA TypesStep == ASSUME IInv, Next PROVE Types'
BY NextCases, BeginsTypes, TransactsTypes, ReadsTypes, FollowsTypes, WritesTypes, CrashTypes

-----------------------------------------------------------------------------
(* A step of one request leaves alone where the others stand. *)
Alone(r) ==
  /\ \A s \in Requests \ {r} :
       op'[s] = op[s] /\ pc'[s] = pc[s] /\ status'[s] = status[s]
         /\ body'[s] = body[s] /\ conn'[s] = conn[s]
  /\ pc'[r] # "new" /\ (pc[r] # "new" => op'[r] = op[r])
  /\ stated \subseteq stated' /\ claimed \subseteq claimed'
  /\ source \cup retracted \subseteq source' \cup retracted' /\ disk' = disk

LEMMA BeginsAlone ==
  ASSUME IInv, NEW r \in Requests, Begins(r)
  PROVE  /\ Alone(r) /\ pc[r] = "new" /\ op[r] = None /\ status[r] = 0 /\ body[r] = None
         /\ UNCHANGED <<records, told, live, conn, body>>
<1>1. Types /\ Stands(r)
  BY TypeParts DEF IInv, Requested
<1> USE DEF Begin, Goes, Respond, Alone, Types, Stands, stores, facts, records, channels, answers
<1>2. ASSUME NEW b \in Blobs, PutBlob(r, b)
      PROVE  Alone(r) /\ pc[r] = "new" /\ UNCHANGED <<records, told, live, conn, body>>
  BY <1>1, <1>2 DEF PutBlob
<1>3. ASSUME NEW b \in Blobs, Head(r, b)
      PROVE  Alone(r) /\ pc[r] = "new" /\ UNCHANGED <<records, told, live, conn, body>>
  BY <1>1, <1>3 DEF Head
<1>4. ASSUME NEW q \in Queries, NEW accept \in Accepts, PutQuery(r, q, accept)
      PROVE  Alone(r) /\ pc[r] = "new" /\ UNCHANGED <<records, told, live, conn, body>>
  BY <1>1, <1>4 DEF PutQuery
<1>5. ASSUME NEW e \in Edits, Edit(r, e)
      PROVE  Alone(r) /\ pc[r] = "new" /\ UNCHANGED <<records, told, live, conn, body>>
  BY <1>1, <1>5 DEF Edit
<1>6. ASSUME NEW x \in Others, ImportJSON(r, x)
      PROVE  Alone(r) /\ pc[r] = "new" /\ UNCHANGED <<records, told, live, conn, body>>
  BY <1>1, <1>6 DEF ImportJSON
<1> HIDE DEF Alone
<1>7. Alone(r) /\ pc[r] = "new" /\ UNCHANGED <<records, told, live, conn, body>>
  BY <1>2, <1>3, <1>4, <1>5, <1>6 DEF Begins
<1> QED
  BY <1>1, <1>7

LEMMA GoesOnAlone ==
  ASSUME IInv, NEW r \in Requests, Transacts(r) \/ Reads(r) \/ Follows(r) \/ Writes(r)
  PROVE  Alone(r) /\ pc[r] # "new" /\ UNCHANGED op
<1> USE DEF Goes, Respond, Follow, Alone, Types, stores, facts, records, channels, answers
<1>1. Types
  BY TypeParts DEF IInv
<1>2. CASE Transacts(r)
  <2>1. CASE Commit(r) \/ StoreQuery(r)
    BY <1>1, <2>1, TransactGrows DEF Commit, StoreQuery
  <2> QED
    BY <1>1, <1>2, <2>1 DEF Transacts, Announce, Fail, LookUp
<1>3. CASE Reads(r)
  BY <1>1, <1>3 DEF Reads, GetSelection, GetSelectionFails, GetQueryAsBlob, GetBlob, Redirected
<1>4. CASE Follows(r)
  BY <1>1, <1>4 DEF Follows, Subscribe, Load, Leave, Redirected
<1>5. CASE Writes(r)
  BY <1>1, <1>5 DEF Writes, PutEnds, PutFails
<1> QED
  BY <1>2, <1>3, <1>4, <1>5

LEMMA ChangesStay ==
  ASSUME NEW s \in Requests, op'[s] = op[s]
  PROVE  Asserted(s)' = Asserted(s) /\ Retracted(s)' = Retracted(s) /\ Changes(s)' = Changes(s)
BY DEF Asserted, Retracted, Changes

(* What is entered stays so. *)
LEMMA EnteredStays ==
  ASSUME NEW s \in Requests, op'[s] = op[s], Entered(s),
         stated \subseteq stated', claimed \subseteq claimed',
         source \cup retracted \subseteq source' \cup retracted'
  PROVE  Entered(s)'
<1>1. Asserted(s)' = Asserted(s) /\ Changes(s)' = Changes(s)
  BY ChangesStay
<1> QED
  BY <1>1 DEF Entered, Named

LEMMA OthersStay ==
  ASSUME IInv, NEW r \in Requests, Alone(r), NEW s \in Requests, s # r
  PROVE  Stands(s)' /\ Kept(s)' /\ ChannelOf(s)'
<1>1. Stands(s) /\ Kept(s) /\ ChannelOf(s)
  BY DEF IInv, Requested
<1>2. Stands(s)'
  BY <1>1 DEF Stands, Alone
<1>3. Kept(s)'
  BY <1>1, EnteredStays DEF Kept, Alone, Described
<1>4. ChannelOf(s)'
  BY <1>1 DEF ChannelOf, Alone
<1> QED
  BY <1>2, <1>3, <1>4

-----------------------------------------------------------------------------
(* Files that are written. *)
LEMMA OpenersStay ==
  ASSUME IInv, NEW r \in Requests, Alone(r), pc[r] # "putting", UNCHANGED <<blobs, opener>>
  PROVE  Openers'
<1>1. Types /\ Openers
  BY TypeParts DEF IInv
<1> QED
  BY <1>1 DEF Alone, Openers, Types

LEMMA PutBlobOpeners ==
  ASSUME IInv, NEW r \in Requests, NEW b \in Blobs, PutBlob(r, b)
  PROVE  Openers' /\ InMemory'
<1>1. Types /\ Openers /\ InMemory
  BY TypeParts DEF IInv
<1>2. Alone(r) /\ pc[r] = "new"
  BY BeginsAlone DEF Begins
<1>3. ASSUME NEW c \in Blobs, c # b, opener'[c] # None
      PROVE  blobs'[c] = "torn" /\ pc'[opener'[c]] = "putting"
               /\ op'[opener'[c]] = [kind |-> "blob", of |-> c]
  <2>1. opener'[c] = opener[c] /\ blobs'[c] = blobs[c]
    BY <1>1, <1>3 DEF PutBlob, Types
  <2>2. blobs[c] = "torn" /\ pc[opener[c]] = "putting" /\ op[opener[c]] = [kind |-> "blob", of |-> c]
    BY <1>1, <1>3, <2>1 DEF Openers
  <2>3. opener[c] \in Requests /\ opener[c] # r
    BY <1>1, <1>2, <1>3, <2>1, <2>2 DEF Types
  <2>4. pc'[opener[c]] = pc[opener[c]] /\ op'[opener[c]] = op[opener[c]]
    BY <1>2, <2>3 DEF Alone
  <2> QED
    BY <2>1, <2>2, <2>4
<1>4. ASSUME opener'[b] # None
      PROVE  blobs'[b] = "torn" /\ pc'[opener'[b]] = "putting"
               /\ op'[opener'[b]] = [kind |-> "blob", of |-> b]
  <2>1. disk
    BY <1>1, <1>4 DEF PutBlob, InMemory
  <2> QED
    BY <1>1, <2>1 DEF PutBlob, Begin, Goes, Types
<1>5. Openers'
  BY <1>3, <1>4 DEF Openers
<1>6. InMemory'
  BY <1>1 DEF InMemory, PutBlob
<1> QED
  BY <1>5, <1>6

LEMMA WritesOpeners ==
  ASSUME IInv, NEW r \in Requests, Writes(r)
  PROVE  Openers' /\ InMemory'
<1>1. Types /\ Openers /\ InMemory
  BY TypeParts DEF IInv
<1>2. Alone(r)
  BY GoesOnAlone
<1>3. op[r] \in BlobOps /\ op[r].of \in Blobs /\ op[r] = [kind |-> "blob", of |-> op[r].of]
  <2>1. Stands(r)
    BY DEF IInv, Requested
  <2> QED
    BY <2>1, OpsKinds DEF Writes, PutEnds, PutFails, Stands
<1>4. \A c \in Blobs : opener[c] = r => c = op[r].of
  <2>1. \A c \in Blobs : opener[c] = r => op[r] = [kind |-> "blob", of |-> c]
    BY <1>1, ServiceAssumption DEF Openers
  <2>2. \A c \in Blobs : op[r] = [kind |-> "blob", of |-> c] => op[r].of = c
    OBVIOUS
  <2> QED
    BY <2>1, <2>2
<1>5. \A c \in Blobs : opener'[c] # None =>
        opener'[c] = opener[c] /\ opener[c] # r /\ blobs'[c] = blobs[c]
  <2>1. CASE PutEnds(r)
    BY <1>1, <1>3, <1>4, <2>1 DEF PutEnds, Types
  <2>2. CASE PutFails(r)
    BY <1>1, <2>2 DEF PutFails, Types
  <2> QED
    BY <2>1, <2>2 DEF Writes
<1>6. Openers'
  BY <1>1, <1>2, <1>5 DEF Openers, Alone, Types
<1>7. InMemory'
  BY <1>1, <1>2, <1>5 DEF InMemory, Alone
<1> QED
  BY <1>6, <1>7

(* Channels in the map have followers. *)
LEMMA FollowersStay ==
  ASSUME IInv, NEW r \in Requests, Alone(r), pc[r] # "following", UNCHANGED live
  PROVE  Followed'
<1>1. Followed
  BY TypeParts DEF IInv
<1> QED
  BY <1>1 DEF Alone, Followed

LEMMA LoadFollowed == ASSUME IInv, NEW r \in Requests, Load(r) PROVE Followed'
<1>1. Types /\ Followed
  BY TypeParts DEF IInv
<1>2. Alone(r) /\ UNCHANGED op
  BY GoesOnAlone DEF Follows
<1>3. CASE UNCHANGED live
  BY <1>2, <1>3, FollowersStay DEF Load
<1>4. CASE Follow(r, r) /\ live' = [live EXCEPT ![op[r].of] = r]
  <2>1. pc'[r] = "following" /\ conn'[r] = r
    BY <1>1, <1>4 DEF Follow, Respond, Goes, Types
  <2>2. ASSUME NEW q \in Queries, live'[q] # None
        PROVE  \E s \in Requests : pc'[s] = "following" /\ conn'[s] = live'[q] /\ op'[s].of = q
    <3>1. CASE q = op[r].of
      BY <1>1, <1>2, <1>4, <2>1, <3>1 DEF Types
    <3>2. CASE q # op[r].of
      <4>1. live'[q] = live[q]
        BY <1>1, <1>4, <3>2 DEF Types
      <4>2. PICK s \in Requests : pc[s] = "following" /\ conn[s] = live[q] /\ op[s].of = q
        BY <1>1, <2>2, <4>1 DEF Followed
      <4>3. s # r
        BY <4>2 DEF Load
      <4> QED
        BY <1>2, <4>1, <4>2, <4>3 DEF Alone
    <3> QED
      BY <3>1, <3>2
  <2> QED
    BY <2>2 DEF Followed
<1> QED
  BY <1>3, <1>4 DEF Load, channels

LEMMA LeaveFollowed == ASSUME IInv, NEW r \in Requests, Leave(r) PROVE Followed'
<1>1. Types /\ Followed /\ ChannelOf(r)
  BY TypeParts DEF IInv, Requested
<1>2. Alone(r) /\ UNCHANGED op
  BY GoesOnAlone DEF Follows
<1>3. ASSUME NEW q \in Queries, live'[q] # None
      PROVE  \E s \in Requests : pc'[s] = "following" /\ conn'[s] = live'[q] /\ op'[s].of = q
  <2>1. live'[q] = live[q]
    BY <1>1, <1>3 DEF Leave, Types
  <2>2. PICK s \in Requests : pc[s] = "following" /\ conn[s] = live[q] /\ op[s].of = q
    BY <1>1, <1>3, <2>1 DEF Followed
  <2>3. CASE s # r
    BY <1>2, <2>1, <2>2, <2>3 DEF Alone
  <2>4. CASE s = r
    <3>1. PICK t \in Requests \ {r} : pc[t] = "following" /\ conn[t] = conn[r]
      <4>1. live' # [live EXCEPT ![op[r].of] = None]
        BY <1>1, <1>3, <2>2, <2>4 DEF Types
      <4> QED
        BY <4>1 DEF Leave
    <3>2. ChannelOf(t) /\ op[t].of = q
      BY <1>1, <2>2, <2>4, <3>1 DEF IInv, Requested, ChannelOf, Leave
    <3> QED
      BY <1>2, <2>1, <2>2, <2>4, <3>1, <3>2 DEF Alone
  <2> QED
    BY <2>3, <2>4
<1> QED
  BY <1>3 DEF Followed

LEMMA TypeStep == ASSUME IInv, Next PROVE TypeOK' /\ InMemory'
<1>0. InMemory
  BY DEF IInv
<1>1. ASSUME NEW r \in Requests, Begins(r) PROVE Openers' /\ Followed' /\ InMemory'
  <2>1. Alone(r) /\ pc[r] = "new" /\ UNCHANGED live
    BY <1>1, BeginsAlone
  <2>2. CASE \E b \in Blobs : PutBlob(r, b)
    BY <2>1, <2>2, PutBlobOpeners, FollowersStay
  <2>3. CASE UNCHANGED stores
    BY <1>0, <2>1, <2>3, OpenersStay, FollowersStay DEF stores, InMemory
  <2> QED
    BY <1>1, <2>2, <2>3 DEF Begins, Head, PutQuery, Edit, ImportJSON
<1>2. ASSUME NEW r \in Requests, Transacts(r) \/ Reads(r) PROVE Openers' /\ Followed' /\ InMemory'
  <2>1. Alone(r)
    BY <1>2, GoesOnAlone
  <2>2. pc[r] \notin {"putting", "following"} /\ UNCHANGED <<blobs, opener, disk, live>>
    BY <1>2 DEF Transacts, Commit, Announce, Fail, LookUp, StoreQuery, Reads, GetSelection,
      GetSelectionFails, GetQueryAsBlob, GetBlob, Redirected, stores, channels
  <2> QED
    BY <1>0, <2>1, <2>2, OpenersStay, FollowersStay DEF InMemory
<1>3. ASSUME NEW r \in Requests, Follows(r) PROVE Openers' /\ Followed' /\ InMemory'
  <2>1. Alone(r)
    BY <1>3, GoesOnAlone
  <2>2. pc[r] # "putting" /\ UNCHANGED stores
    BY <1>3 DEF Follows, Subscribe, Load, Leave, Redirected
  <2>3. Openers' /\ InMemory'
    BY <1>0, <2>1, <2>2, OpenersStay DEF stores, InMemory
  <2>4. CASE Subscribe(r)
    BY <2>1, <2>3, <2>4, FollowersStay DEF Subscribe, Redirected
  <2>5. CASE Load(r) \/ Leave(r)
    BY <2>3, <2>5, LoadFollowed, LeaveFollowed
  <2> QED
    BY <1>3, <2>4, <2>5 DEF Follows
<1>4. ASSUME NEW r \in Requests, Writes(r) PROVE Openers' /\ Followed' /\ InMemory'
  <2>1. Alone(r)
    BY <1>4, GoesOnAlone
  <2>2. Followed'
    BY <1>4, <2>1, FollowersStay DEF Writes, PutEnds, PutFails, channels
  <2> QED
    BY <1>4, <2>2, WritesOpeners
<1>5. ASSUME Crash PROVE Openers' /\ Followed' /\ InMemory'
  BY <1>5 DEF Crash, Openers, Followed, InMemory
<1>6. Openers' /\ Followed' /\ InMemory'
  BY <1>1, <1>2, <1>3, <1>4, <1>5, NextCases
<1>7. TypeOK' <=> Types' /\ Openers' /\ Followed'
  BY DEF TypeOK, Types, Openers, Followed
<1> QED
  BY <1>6, <1>7, TypesStep

-----------------------------------------------------------------------------
(* The request that steps: where it comes to stand, what it was told of, and
   the channel it follows. *)
LEMMA BeginsStands ==
  ASSUME IInv, NEW r \in Requests, Begins(r)
  PROVE  Stands(r)' /\ Kept(r)' /\ ChannelOf(r)'
<1> USE DEF Begin, Goes, Respond, Types, stores, facts, records, channels, answers
<1>1. Types /\ pc[r] = "new" /\ status[r] = 0
  BY BeginsAlone, TypeParts DEF IInv
<1>2. ASSUME NEW b \in Blobs, PutBlob(r, b) PROVE Stands(r)' /\ Kept(r)' /\ ChannelOf(r)'
  <2>1. op'[r] \in BlobOps /\ op'[r] \in Ops /\ pc'[r] \in {"putting", "transacting"} /\ status'[r] = 0
    BY <1>1, <1>2 DEF PutBlob, BlobOps
  <2> QED
    BY <2>1 DEF Stands, Kept, ChannelOf
<1>3. ASSUME NEW b \in Blobs, Head(r, b) PROVE Stands(r)' /\ Kept(r)' /\ ChannelOf(r)'
  <2>1. /\ op'[r] \in ProbeOps /\ op'[r] \in Ops /\ op'[r].of = b /\ stated' = stated
        /\ pc'[r] \in {"found", "answered"} /\ (pc'[r] = "found" => Described(b) \in source)
    BY <1>1, <1>3 DEF Head, ProbeOps
  <2>2. Described(b) \in source => Described(b) \in stated'
    BY <2>1 DEF IInv, Held
  <2>3. Asserted(r)' = {} /\ Changes(r)' = {}
    BY <2>1, OpsKinds DEF Asserted, Retracted, Changes
  <2>4. Entered(r)'
    BY <2>3 DEF Entered
  <2> QED
    BY <2>1, <2>2, <2>4 DEF Stands, Kept, ChannelOf, Described
<1>4. ASSUME NEW q \in Queries, NEW accept \in Accepts, PutQuery(r, q, accept)
      PROVE  Stands(r)' /\ Kept(r)' /\ ChannelOf(r)'
  <2>1. /\ op'[r] \in QueryOps /\ op'[r] \in Ops /\ op'[r].of = q /\ op'[r].kind = "query"
        /\ stated' = stated /\ source' = source /\ retracted' = retracted /\ claimed' = claimed
    BY <1>1, <1>4 DEF PutQuery, QueryOps
  <2>2. CASE live[q] # None
    <3>1. pc'[r] = "redirected"
      BY <1>1, <1>4, <2>2 DEF PutQuery
    <3>2. PICK s \in Requests : pc[s] = "following" /\ op[s].of = q
      BY <2>2, TypeParts DEF IInv, Followed
    <3>3. Stands(s) /\ Kept(s)
      BY DEF IInv, Requested
    <3>4. op[s] \in QueryOps /\ Entered(s)
      BY <3>2, <3>3 DEF Stands, Kept
    <3>5. Asserted(s) = Registration(q) /\ Changes(s) = Registration(q)
      BY <3>2, <3>4, ChangesOf DEF Changes
    <3>6. Asserted(r)' = Registration(q) /\ Changes(r)' = Registration(q)
      BY <2>1, OpsKinds DEF Asserted, Retracted, Changes, Registration, Named, Bytes
    <3>7. Entered(r)'
      BY <2>1, <3>2, <3>4, <3>5, <3>6 DEF Entered, Named
    <3> QED
      BY <2>1, <3>1, <3>7 DEF Stands, Kept, ChannelOf
  <2>3. CASE live[q] = None
    <3>1. pc'[r] = "looking" /\ status'[r] = 0
      BY <1>1, <1>4, <2>3 DEF PutQuery
    <3> QED
      BY <2>1, <3>1 DEF Stands, Kept, ChannelOf
  <2> QED
    BY <2>2, <2>3
<1>5. ASSUME NEW e \in Edits, Edit(r, e) PROVE Stands(r)' /\ Kept(r)' /\ ChannelOf(r)'
  <2>1. op'[r] \in ChangeOps /\ op'[r] \in Ops /\ pc'[r] = "transacting" /\ status'[r] = 0
    BY <1>1, <1>5 DEF Edit, ChangeOps, EditOps
  <2> QED
    BY <2>1 DEF Stands, Kept, ChannelOf
<1>6. ASSUME NEW x \in Others, ImportJSON(r, x) PROVE Stands(r)' /\ Kept(r)' /\ ChannelOf(r)'
  <2>1. op'[r] \in ChangeOps /\ op'[r] \in Ops /\ pc'[r] = "transacting" /\ status'[r] = 0
    BY <1>1, <1>6 DEF ImportJSON, ChangeOps, ImportOps
  <2> QED
    BY <2>1 DEF Stands, Kept, ChannelOf
<1> QED
  BY <1>2, <1>3, <1>4, <1>5, <1>6 DEF Begins

LEMMA TransactsStands ==
  ASSUME IInv, NEW r \in Requests, Transacts(r)
  PROVE  Stands(r)' /\ Kept(r)' /\ ChannelOf(r)'
<1> USE DEF Goes, Respond, Types, stores, facts, records, channels, answers
<1>1. Types /\ Stands(r) /\ Kept(r)
  BY TypeParts DEF IInv, Requested
<1>2. /\ Alone(r) /\ pc[r] # "new" /\ op'[r] = op[r]
      /\ Asserted(r)' = Asserted(r) /\ Changes(r)' = Changes(r)
  BY GoesOnAlone, ChangesStay
<1>3. Entered(r) => Entered(r)'
  BY <1>2, EnteredStays DEF Alone
<1>4. CASE Commit(r)
  <2>1. pc'[r] = "announcing" /\ pc[r] = "transacting" /\ Transact(r)
    BY <1>1, <1>4 DEF Commit
  <2>2. Entered(r)'
    BY <1>2, <2>1, TransactGrows DEF Entered
  <2> QED
    BY <1>1, <1>2, <2>1, <2>2 DEF Stands, Kept, ChannelOf
<1>5. CASE Announce(r)
  <2>1. /\ pc[r] = "announcing" /\ Entered(r)'
        /\ IF op[r].kind = "blob" THEN pc'[r] = "redirected" ELSE pc'[r] = "answered"
    BY <1>1, <1>3, <1>5 DEF Announce, Kept
  <2> QED
    BY <1>1, <1>2, <2>1, OpsKinds DEF Stands, Kept, ChannelOf, ChangeOps
<1>6. CASE Fail(r)
  <2>1. pc'[r] = "answered" /\ status'[r] = 400
    BY <1>1, <1>6 DEF Fail
  <2> QED
    BY <1>1, <1>2, <2>1 DEF Stands, Kept, ChannelOf
<1>7. CASE LookUp(r)
  <2>1. /\ op[r] \in QueryOps /\ op[r].of \in Queries /\ op[r].kind = "query" /\ pc[r] = "looking"
    BY <1>1, <1>7, OpsKinds DEF LookUp, Stands
  <2>2. CASE Named(op[r].of) \in source
    <3>1. pc'[r] = "redirected"
      BY <1>1, <1>7, <2>2 DEF LookUp
    <3>2. Asserted(r) = Registration(op[r].of) /\ Changes(r) = Registration(op[r].of)
      BY <2>1, ChangesOf DEF Changes
    <3>3. /\ Named(op[r].of) \in claimed \/ Registration(op[r].of) \subseteq stated
          /\ stated \subseteq source \cup retracted
      BY <2>1, <2>2 DEF IInv, Paired, Held, Registration
    <3>4. Entered(r)
      BY <2>1, <3>2, <3>3 DEF Entered
    <3> QED
      BY <1>1, <1>2, <1>3, <2>1, <3>1, <3>4 DEF Stands, Kept, ChannelOf
  <2>3. CASE Named(op[r].of) \notin source
    <3>1. pc'[r] = "storing" /\ status'[r] = status[r]
      BY <1>1, <1>7, <2>3 DEF LookUp
    <3> QED
      BY <1>1, <1>2, <1>3, <2>1, <3>1 DEF Stands, Kept, ChannelOf
  <2> QED
    BY <2>2, <2>3
<1>8. CASE StoreQuery(r)
  <2>1. pc'[r] = "redirected" /\ pc[r] = "storing" /\ Transact(r)
    BY <1>1, <1>8 DEF StoreQuery
  <2>2. Entered(r)'
    BY <1>2, <2>1, TransactGrows DEF Entered
  <2> QED
    BY <1>1, <1>2, <2>1, <2>2 DEF Stands, Kept, ChannelOf
<1> QED
  BY <1>4, <1>5, <1>6, <1>7, <1>8 DEF Transacts

LEMMA ReadsStands ==
  ASSUME IInv, NEW r \in Requests, Reads(r)
  PROVE  Stands(r)' /\ Kept(r)' /\ ChannelOf(r)'
<1> USE DEF Goes, Respond, Types, stores, facts, records, channels, answers
<1>1. Types /\ Stands(r) /\ Kept(r)
  BY TypeParts DEF IInv, Requested
<1>2. Alone(r) /\ pc[r] # "new" /\ op'[r] = op[r]
  BY GoesOnAlone
<1>3. pc'[r] = "answered" /\ pc[r] \in {"redirected", "found"}
  BY <1>1 DEF Reads, GetSelection, GetSelectionFails, GetQueryAsBlob, GetBlob, Redirected
<1>4. Entered(r)'
  <2>1. pc[r] = "found" => Entered(r)
    BY <1>1, ChangesOf DEF Stands, Entered, Changes
  <2> QED
    BY <1>1, <1>2, <1>3, <2>1, EnteredStays DEF Kept, Alone
<1> QED
  BY <1>1, <1>2, <1>3, <1>4 DEF Stands, Kept, ChannelOf

LEMMA FollowsStands ==
  ASSUME IInv, NEW r \in Requests, Follows(r)
  PROVE  Stands(r)' /\ Kept(r)' /\ ChannelOf(r)'
<1> USE DEF Goes, Respond, Follow, Types, stores, facts, records, channels, answers
<1>1. Types /\ Stands(r) /\ Kept(r)
  BY TypeParts DEF IInv, Requested
<1>2. Alone(r) /\ pc[r] # "new" /\ op' = op
  BY GoesOnAlone
<1>3. op[r] \in QueryOps /\ op[r] \in Ops /\ op[r].of \in Queries
  BY <1>1, OpsKinds DEF Follows, Subscribe, Load, Leave, Redirected, Stands
<1>4. pc[r] \in {"redirected", "loading", "following"}
  BY DEF Follows, Subscribe, Load, Leave, Redirected
<1>5. Entered(r)'
  BY <1>1, <1>2, <1>4, EnteredStays DEF Kept, Alone
<1>6. pc'[r] \in {"following", "loading", "answered"}
  BY <1>1 DEF Follows, Subscribe, Load, Leave
<1>7. Stands(r)' /\ Kept(r)'
  BY <1>2, <1>3, <1>4, <1>5, <1>6 DEF Stands, Kept
<1>8. ChannelOf(r)'
  <2>1. CASE Subscribe(r) /\ live[op[r].of] # None
    <3>1. conn'[r] = live[op[r].of]
      BY <1>1, <2>1 DEF Subscribe
    <3>2. PICK s \in Requests : pc[s] = "following" /\ conn[s] = live[op[r].of] /\ op[s].of = op[r].of
      BY <1>3, <2>1, TypeParts DEF IInv, Followed
    <3>3. ChannelOf(s)
      BY DEF IInv, Requested
    <3>4. /\ conn'[r] \in Requests /\ pc[conn'[r]] # "new"
          /\ op[conn'[r]] \in QueryOps /\ op[conn'[r]].of = op[r].of
      BY <3>1, <3>2, <3>3 DEF ChannelOf
    <3>5. pc'[conn'[r]] # "new"
      BY <1>2, <3>4 DEF Alone
    <3> QED
      BY <1>2, <3>4, <3>5 DEF ChannelOf
  <2>2. CASE Load(r) /\ conn'[r] = r
    BY <1>2, <1>3, <2>2 DEF ChannelOf, Alone
  <2>3. CASE pc'[r] # "following"
    BY <2>3 DEF ChannelOf
  <2>4. ASSUME pc'[r] = "following"
        PROVE  (Subscribe(r) /\ live[op[r].of] # None) \/ (Load(r) /\ conn'[r] = r)
    BY <1>1, <2>4 DEF Follows, Subscribe, Load, Leave, Redirected
  <2> QED
    BY <2>1, <2>2, <2>3, <2>4
<1> QED
  BY <1>7, <1>8

LEMMA WritesStands ==
  ASSUME IInv, NEW r \in Requests, Writes(r)
  PROVE  Stands(r)' /\ Kept(r)' /\ ChannelOf(r)'
<1> USE DEF Goes, Respond, Types, stores, facts, records, channels, answers
<1>1. Types /\ Stands(r) /\ Kept(r)
  BY TypeParts DEF IInv, Requested
<1>2. Alone(r) /\ pc[r] # "new" /\ op'[r] = op[r]
  BY GoesOnAlone
<1>3. /\ pc[r] = "putting"
      /\ (pc'[r] = "transacting" /\ status'[r] = status[r]) \/ (pc'[r] = "answered" /\ status'[r] = 400)
  BY <1>1 DEF Writes, PutEnds, PutFails
<1>4. Entered(r) => Entered(r)'
  BY <1>2, EnteredStays DEF Alone
<1> QED
  BY <1>1, <1>2, <1>3, <1>4 DEF Stands, Kept, ChannelOf

-----------------------------------------------------------------------------
(* Contents.  Which steps change the files. *)
LEMMA FilesStay ==
  ASSUME NEW r \in Requests, Begins(r) \/ Transacts(r) \/ Reads(r) \/ Follows(r) \/ Writes(r)
  PROVE  UNCHANGED stores \/ (\E b \in Blobs : PutBlob(r, b)) \/ Writes(r)
BY DEF Begins, Head, PutQuery, Edit, ImportJSON, Transacts, Commit, Announce, Fail, LookUp,
  StoreQuery, Reads, GetSelection, GetSelectionFails, GetQueryAsBlob, GetBlob, Follows, Subscribe,
  Load, Leave

LEMMA SoundStays == ASSUME IInv, Next, NEW b \in Blobs, Sound(b) PROVE Sound(b)'
<1>1. Types
  BY TypeParts DEF IInv
<1>2. ASSUME UNCHANGED stores PROVE Sound(b)'
  BY <1>2 DEF stores, Sound
<1>3. ASSUME NEW r \in Requests, NEW c \in Blobs, PutBlob(r, c) PROVE Sound(b)'
  BY <1>1, <1>3 DEF PutBlob, Sound, Types
<1>4. ASSUME NEW r \in Requests, PutEnds(r) PROVE Sound(b)'
  BY <1>1, <1>4 DEF PutEnds, Sound, Types
<1>5. ASSUME NEW r \in Requests, PutFails(r) PROVE Sound(b)'
  BY <1>5 DEF PutFails, Sound
<1>6. ASSUME Crash PROVE Sound(b)'
  BY <1>6 DEF Crash, Sound
<1> QED
  BY <1>2, <1>3, <1>4, <1>5, <1>6, NextCases, FilesStay DEF Writes

LEMMA PutBlobPut ==
  ASSUME IInv, NEW r \in Requests, NEW b \in Blobs, PutBlob(r, b), NEW s \in Requests
  PROVE  Put(s)'
<1>1. Types /\ Put(s) /\ Stands(s)
  BY TypeParts DEF IInv, Requested
<1>2. Alone(r)
  BY BeginsAlone DEF Begins
<1>3. Next
  BY DEF Next
<1>4. CASE s = r
  <2>1. op'[r] = [kind |-> "blob", of |-> b] /\ op'[r].of = b
    BY <1>1 DEF PutBlob, Begin, Types
  <2>2. CASE disk
    BY <1>1, <1>4, <2>1, <2>2 DEF PutBlob, Goes, Put, Types
  <2>3. CASE ~disk
    BY <1>1, <1>4, <2>1, <2>3 DEF PutBlob, Goes, Put, Sound, Types
  <2> QED
    BY <2>2, <2>3
<1>5. CASE s # r
  <2>1. op'[s] = op[s] /\ pc'[s] = pc[s]
    BY <1>2, <1>5 DEF Alone
  <2>2. CASE pc[s] = "putting"
    <3>1. op[s].of \in Blobs
      BY <1>1, <2>2, OpsKinds DEF Stands
    <3>2. CASE Sound(op[s].of)
      BY <1>3, <2>1, <2>2, <3>1, <3>2, SoundStays DEF Put
    <3>3. CASE opener[op[s].of] = s /\ op[s].of = b
      <4>1. Sound(b)'
        BY <1>1, <3>3, ServiceAssumption DEF PutBlob, Sound, Types
      <4> QED
        BY <2>1, <2>2, <3>3, <4>1 DEF Put
    <3>4. CASE opener[op[s].of] = s /\ op[s].of # b
      <4>1. opener'[op[s].of] = s
        BY <1>1, <3>1, <3>4 DEF PutBlob, Types
      <4> QED
        BY <2>1, <2>2, <4>1 DEF Put
    <3> QED
      BY <1>1, <2>2, <3>2, <3>3, <3>4 DEF Put
  <2>3. CASE pc[s] # "putting"
    <3>1. pc[s] = "transacting" /\ op[s] \in BlobOps => op[s].of \in Blobs
      BY OpsKinds
    <3> QED
      BY <1>1, <1>3, <2>1, <2>3, <3>1, SoundStays DEF Put
  <2> QED
    BY <2>2, <2>3
<1> QED
  BY <1>4, <1>5

LEMMA WritesPut ==
  ASSUME IInv, NEW r \in Requests, Writes(r), NEW s \in Requests
  PROVE  Put(s)'
<1>1. Types /\ Put(s) /\ Stands(s) /\ Stands(r)
  BY TypeParts DEF IInv, Requested
<1>2. Alone(r) /\ UNCHANGED op
  BY GoesOnAlone
<1>3. Next
  BY DEF Next, Writes
<1>4. op[s] \in BlobOps => op[s].of \in Blobs
  BY OpsKinds
<1>5. CASE s = r
  <2>1. CASE PutEnds(r)
    <3>1. pc'[r] = "transacting" /\ op[r].of \in Blobs /\ pc[r] = "putting"
      BY <1>1, <1>4, <1>5, <2>1 DEF PutEnds, Goes, Types, Stands
    <3>2. Sound(op[r].of)'
      <4>1. CASE opener[op[r].of] = r
        BY <1>1, <1>2, <2>1, <3>1, <4>1 DEF PutEnds, Types, Sound
      <4>2. CASE opener[op[r].of] # r
        BY <1>1, <1>2, <1>3, <1>5, <3>1, <4>2, SoundStays DEF Put
      <4> QED
        BY <4>1, <4>2
    <3> QED
      BY <1>2, <1>5, <3>1, <3>2 DEF Put
  <2>2. CASE PutFails(r)
    BY <1>1, <1>5, <2>2 DEF PutFails, Respond, Goes, Types, Put
  <2> QED
    BY <2>1, <2>2 DEF Writes
<1>6. CASE s # r
  <2>1. op'[s] = op[s] /\ pc'[s] = pc[s]
    BY <1>2, <1>6 DEF Alone
  <2>2. CASE op[s] \in BlobOps
    <3>1. PICK b \in Blobs : b = op[s].of
      BY <1>4, <2>2
    <3>2. Sound(b) => Sound(b)'
      BY <1>3, SoundStays
    <3>3. opener[b] = s => opener'[b] = s
      BY <1>1, <1>6 DEF Writes, PutEnds, PutFails, Types
    <3> QED
      BY <1>1, <2>1, <3>1, <3>2, <3>3 DEF Put
  <2> QED
    BY <1>1, <2>1, <2>2 DEF Put, Stands
<1> QED
  BY <1>5, <1>6

LEMMA PutStays ==
  ASSUME IInv, NEW r \in Requests, UNCHANGED stores, NEW s \in Requests,
         Begins(r) \/ Transacts(r) \/ Reads(r) \/ Follows(r), ~\E b \in Blobs : PutBlob(r, b)
  PROVE  Put(s)'
<1>1. Types /\ Put(s) /\ Stands(s) /\ Alone(r)
  BY TypeParts, BeginsAlone, GoesOnAlone DEF IInv, Requested
<1>2. UNCHANGED <<opener, blobs, reopened>>
  BY DEF stores
<1>3. CASE s # r
  BY <1>1, <1>2, <1>3 DEF Alone, Put, Sound
<1>4. pc'[r] # "putting" /\ (pc'[r] = "transacting" => op'[r] \in ChangeOps)
  <2>1. CASE Begins(r)
    <3>1. CASE (\E e \in Edits : Edit(r, e)) \/ \E x \in Others : ImportJSON(r, x)
      <4>1. ASSUME NEW e \in Edits, Edit(r, e) PROVE op'[r] \in ChangeOps /\ pc'[r] = "transacting"
        BY <1>1, <4>1 DEF Edit, Begin, Goes, Types, ChangeOps, EditOps
      <4>2. ASSUME NEW x \in Others, ImportJSON(r, x)
            PROVE  op'[r] \in ChangeOps /\ pc'[r] = "transacting"
        BY <1>1, <4>2 DEF ImportJSON, Begin, Goes, Types, ChangeOps, ImportOps
      <4> QED
        BY <3>1, <4>1, <4>2
    <3>2. ASSUME NEW b \in Blobs, Head(r, b) PROVE pc'[r] \in {"found", "answered"}
      BY <1>1, <3>2 DEF Head, Respond, Goes, Types
    <3>3. ASSUME NEW q \in Queries, NEW accept \in Accepts, PutQuery(r, q, accept)
          PROVE  pc'[r] \in {"redirected", "looking"}
      BY <1>1, <3>3 DEF PutQuery, Respond, Goes, Types
    <3> QED
      BY <2>1, <3>1, <3>2, <3>3 DEF Begins
  <2>2. CASE Transacts(r)
    BY <1>1, <2>2 DEF Transacts, Commit, Announce, Fail, LookUp, StoreQuery, Respond, Goes, Types
  <2>3. CASE Reads(r)
    BY <1>1, <2>3 DEF Reads, GetSelection, GetSelectionFails, GetQueryAsBlob, GetBlob, Respond, Goes, Types
  <2>4. CASE Follows(r)
    BY <1>1, <2>4 DEF Follows, Subscribe, Load, Leave, Follow, Respond, Goes, Types
  <2> QED
    BY <2>1, <2>2, <2>3, <2>4
<1>5. op'[r] \in ChangeOps => op'[r] \notin BlobOps
  BY OpsKinds DEF ChangeOps
<1> QED
  BY <1>3, <1>4, <1>5 DEF Put

LEMMA PutStep == ASSUME IInv, Next, ~Crash, NEW s \in Requests PROVE Put(s)'
<1>1. PICK r \in Requests : Begins(r) \/ Transacts(r) \/ Reads(r) \/ Follows(r) \/ Writes(r)
  BY NextCases
<1>2. CASE \E b \in Blobs : PutBlob(r, b)
  BY <1>2, PutBlobPut
<1>3. CASE Writes(r)
  BY <1>3, WritesPut
<1> QED
  BY <1>1, <1>2, <1>3, FilesStay, PutStays

-----------------------------------------------------------------------------
(* What a step adds to the facts. *)
LEMMA Added ==
  ASSUME IInv, Next
  PROVE  \/ UNCHANGED records
         \/ \E r \in Requests :
              /\ Transact(r)
              /\ \/ pc[r] = "storing" /\ op[r] \in QueryOps
                 \/ pc[r] = "transacting" /\ op[r] \in BlobOps \cup ChangeOps
<1>1. ASSUME NEW r \in Requests, Begins(r) PROVE UNCHANGED records
  BY <1>1, BeginsAlone
<1>2. ASSUME NEW r \in Requests, Transacts(r)
      PROVE  \/ UNCHANGED records
             \/ /\ Transact(r)
                /\ \/ pc[r] = "storing" /\ op[r] \in QueryOps
                   \/ pc[r] = "transacting" /\ op[r] \in BlobOps \cup ChangeOps
  <2>1. Stands(r)
    BY DEF IInv, Requested
  <2> QED
    BY <1>2, <2>1 DEF Transacts, Commit, Announce, Fail, LookUp, StoreQuery, facts, Stands
<1>3. ASSUME NEW r \in Requests, Reads(r) \/ Follows(r) \/ Writes(r) PROVE UNCHANGED records
  BY <1>3 DEF Reads, GetSelection, GetSelectionFails, GetQueryAsBlob, GetBlob, Follows, Subscribe,
    Load, Leave, Writes, PutEnds, PutFails, facts
<1>4. ASSUME Crash PROVE UNCHANGED records
  BY <1>4 DEF Crash
<1> QED
  BY <1>1, <1>2, <1>3, <1>4, NextCases

(* An edit that is the first to assert a fact claims it, and others assert only
   what they are for. *)
LEMMA Newly ==
  ASSUME NEW r \in Requests, Transact(r), NEW f \in stated' \ claimed', f \notin stated
  PROVE  f \in Asserted(r) /\ op[r] \notin EditOps
BY OpsKinds DEF Transact

LEMMA HeldStep == ASSUME IInv, Next PROVE Held'
<1>1. Held
  BY DEF IInv
<1>2. CASE UNCHANGED records
  BY <1>1, <1>2 DEF Held, records
<1> QED
  BY <1>1, <1>2, Added, TransactGrows

LEMMA PairedStep == ASSUME IInv, Next PROVE Paired'
<1>1. Paired
  BY DEF IInv
<1>2. CASE UNCHANGED records
  BY <1>1, <1>2 DEF Paired, records, Named, Bytes
<1>3. ASSUME NEW r \in Requests, Transact(r), op[r] \in QueryOps \cup BlobOps \cup ChangeOps
      PROVE  Paired'
  <2>1. ASSUME NEW q \in Queries, Named(q) \in stated' \ claimed' PROVE Bytes(q) \in stated'
    <3>1. stated \subseteq stated' /\ claimed \subseteq claimed' /\ Asserted(r) \subseteq stated'
      BY <1>3, TransactGrows
    <3>2. CASE Named(q) \in stated
      BY <1>1, <2>1, <3>1, <3>2 DEF Paired
    <3>3. CASE Named(q) \notin stated
      <4>1. Named(q) \in Asserted(r) /\ op[r] \notin EditOps
        BY <1>3, <2>1, <3>3, Newly
      <4>2. op[r] \in QueryOps
        BY <1>3, <4>1, ChangesOf DEF ChangeOps, Named, Described, Other
      <4>3. Named(q) \in Registration(op[r].of)
        BY <4>1, <4>2, ChangesOf
      <4>4. q = op[r].of
        BY <4>3 DEF Registration, Named, Bytes
      <4> QED
        BY <3>1, <4>2, <4>4, ChangesOf DEF Registration
    <3> QED
      BY <3>2, <3>3
  <2> QED
    BY <2>1 DEF Paired, Named, Bytes
<1> QED
  BY <1>2, <1>3, Added

LEMMA BackedStep == ASSUME IInv, Next PROVE Backed'
<1>1. Backed
  BY DEF IInv
<1>2. ASSUME NEW b \in Blobs, Described(b) \in stated' \ claimed' PROVE Sound(b)'
  <2>1. CASE Described(b) \in stated \ claimed
    BY <1>1, <2>1, SoundStays DEF Backed
  <2>2. CASE Described(b) \notin stated \ claimed
    <3>1. PICK r \in Requests :
            /\ Transact(r)
            /\ \/ pc[r] = "storing" /\ op[r] \in QueryOps
               \/ pc[r] = "transacting" /\ op[r] \in BlobOps \cup ChangeOps
      BY <1>2, <2>2, Added DEF records
    <3>2. claimed \subseteq claimed'
      BY <3>1, TransactGrows
    <3>3. Described(b) \in Asserted(r) /\ op[r] \notin EditOps
      BY <1>2, <2>2, <3>1, <3>2, Newly
    <3>4. op[r] \notin QueryOps /\ op[r] \notin ImportOps
      BY <3>3, ChangesOf DEF Described, Other, Registration, Named, Bytes
    <3>5. pc[r] = "transacting" /\ op[r] \in BlobOps
      BY <3>1, <3>3, <3>4 DEF ChangeOps
    <3>6. op[r].of = b
      BY <3>3, <3>5, ChangesOf DEF Described
    <3>7. Put(r)
      BY DEF IInv, Requested
    <3> QED
      BY <3>5, <3>6, <3>7, SoundStays DEF Put
  <2> QED
    BY <2>1, <2>2
<1> QED
  BY <1>2 DEF Backed, Described

LEMMA GottenStep == ASSUME IInv, Next PROVE Gotten'
<1>1. Types /\ Gotten
  BY TypeParts DEF IInv
<1>2. claimed \subseteq claimed'
  BY Added, TransactGrows DEF records
<1>3. reopened \subseteq reopened'
  <2>1. ASSUME NEW r \in Requests, NEW b \in Blobs, PutBlob(r, b) PROVE reopened \subseteq reopened'
    BY <2>1 DEF PutBlob
  <2>2. ASSUME NEW r \in Requests, Writes(r) PROVE reopened \subseteq reopened'
    BY <2>2 DEF Writes, PutEnds, PutFails
  <2> QED
    BY <2>1, <2>2, NextCases, FilesStay DEF Crash, stores
<1>4. ASSUME NEW s \in Requests, op'[s] # None, op'[s].kind \in {"blob", "probe"}, body'[s] = "torn"
      PROVE  op'[s].of \in reopened' \/ Described(op'[s].of) \in claimed'
  <2>1. CASE body'[s] = body[s] /\ op'[s] = op[s]
    BY <1>1, <1>2, <1>3, <1>4, <2>1 DEF Gotten
  <2>2. CASE Crash
    BY <2>1, <2>2 DEF Crash, answers
  <2>3. ASSUME NEW r \in Requests, Begins(r) PROVE body'[s] = body[s] /\ op'[s] = op[s]
    <3>1. Alone(r) /\ body[r] = None /\ body' = body
      BY <2>3, BeginsAlone
    <3> QED
      BY <1>4, <3>1, ServiceAssumption DEF Alone
  <2>4. ASSUME NEW r \in Requests, Transacts(r) \/ Follows(r) \/ Writes(r)
        PROVE  body'[s] = body[s] /\ op'[s] = op[s]
    <3>1. UNCHANGED op
      BY <2>4, GoesOnAlone
    <3>2. UNCHANGED body
      BY <2>4 DEF Transacts, Commit, Announce, Fail, LookUp, StoreQuery, Follows, Subscribe,
        Load, Leave, Follow, Writes, PutEnds, PutFails, Respond, answers
    <3> QED
      BY <3>1, <3>2
  <2>5. ASSUME NEW r \in Requests, Reads(r)
        PROVE  op'[s].of \in reopened' \/ Described(op'[s].of) \in claimed'
    <3>1. Alone(r) /\ UNCHANGED op
      BY <2>5, GoesOnAlone
    <3>2. CASE s # r \/ body'[s] = body[s]
      BY <2>1, <3>1, <3>2 DEF Alone
    <3>3. CASE s = r /\ body'[s] # body[s]
      <4>1. /\ pc[r] = "found" \/ (pc[r] = "redirected" /\ op[r].kind = "blob")
            /\ blobs[op[r].of] = "torn" /\ reopened' = reopened
        BY <1>1, <1>4, <2>5, <3>3 DEF Reads, GetSelection, GetSelectionFails, GetQueryAsBlob,
          GetBlob, Respond, Types, stores
      <4>2. Stands(r) /\ Kept(r)
        BY DEF IInv, Requested
      <4>3. op[r] \in BlobOps => Described(op[r].of) \in stated
        <5>1. op[r] \in BlobOps => Entered(r)
          BY <4>1, <4>2, OpsKinds DEF Stands, Kept
        <5> QED
          BY <5>1, OpsKinds, ChangesOf DEF Entered
      <4>4. op[r].of \in Blobs /\ Described(op[r].of) \in stated
        BY <4>1, <4>2, <4>3, OpsKinds DEF Stands, Kept
      <4>5. op[r].of \in reopened \/ Described(op[r].of) \in claimed
        BY <4>1, <4>4 DEF IInv, Backed, Sound
      <4> QED
        BY <1>2, <3>1, <3>3, <4>1, <4>5
    <3> QED
      BY <3>2, <3>3
  <2> QED
    BY <2>1, <2>2, <2>3, <2>4, <2>5, NextCases
<1> QED
  BY <1>4 DEF Gotten, Described

(* Who is told that there is no such query. *)
LEMMA RedirectStep ==
  ASSUME IInv, Next, NEW s \in Requests, op[s] # None, op[s].kind = "query", op[s].accept # "query",
         status[s] # 404, status'[s] = 404
  PROVE  body'[s] = "reason" \/ Tampered(op[s].of)
<1>1. Types /\ Stands(s) /\ Kept(s) /\ Paired /\ Held
  BY TypeParts DEF IInv, Requested
<1>2. ~Crash
  BY DEF Crash, answers
<1>3. PICK r \in Requests : Begins(r) \/ Transacts(r) \/ Reads(r) \/ Follows(r) \/ Writes(r)
  BY <1>2, NextCases
<1>4. Alone(r) /\ (Begins(r) => op[r] = None)
  BY <1>3, BeginsAlone, GoesOnAlone
<1>5. s = r
  BY <1>4 DEF Alone
<1>6. ~Begins(r)
  BY <1>4, <1>5
<1>7. ~Transacts(r) /\ ~Writes(r)
  BY <1>1, <1>5 DEF Transacts, Commit, Announce, Fail, LookUp, StoreQuery, Writes, PutEnds,
    PutFails, Respond, Types, answers
<1>8. op[s] \in QueryOps
  BY <1>1, OpsSplit, OpsKinds DEF Stands, ChangeOps
<1>9. pc[s] \in {"redirected", "loading"} =>
        Named(op[s].of) \in claimed \/ Bytes(op[s].of) \in source \cup retracted
  <2>1. Asserted(s) = Registration(op[s].of)
    BY <1>8, ChangesOf
  <2> QED
    BY <1>1, <2>1 DEF Kept, Entered, Held, Registration
<1>10. CASE GetSelection(r)
  <2>1. pc[s] = "redirected" /\ NotFound(op[s].of)
    BY <1>1, <1>5, <1>10 DEF GetSelection, Redirected, Respond, Types
  <2> QED
    BY <1>9, <2>1 DEF NotFound, Tampered
<1>11. CASE GetSelectionFails(r)
  BY <1>1, <1>5, <1>11 DEF GetSelectionFails, Types
<1>12. CASE GetQueryAsBlob(r)
  BY <1>5, <1>12 DEF GetQueryAsBlob, Redirected
<1>13. CASE GetBlob(r)
  BY <1>1, <1>5, <1>8, <1>13, OpsKinds DEF GetBlob, Stands
<1>14. CASE Subscribe(r)
  BY <1>1, <1>5, <1>14 DEF Subscribe, Follow, Respond, Types, answers
<1>15. CASE Load(r)
  <2>1. pc[s] = "loading" /\ NotFound(op[s].of)
    BY <1>1, <1>5, <1>15 DEF Load, Follow, Respond, Types
  <2> QED
    BY <1>9, <2>1 DEF NotFound, Tampered
<1>16. CASE Leave(r)
  BY <1>16 DEF Leave, answers
<1> QED
  BY <1>3, <1>6, <1>7, <1>10, <1>11, <1>12, <1>13, <1>14, <1>15, <1>16 DEF Reads, Follows

LEMMA UntoldStep == ASSUME IInv, Next PROVE OnlyQueriesUntold'
<1>1. Types /\ OnlyQueriesUntold
  BY TypeParts DEF IInv
<1>2. CASE Crash \/ \E r \in Requests : Announce(r)
  <2>1. told' = source'
    BY <1>2 DEF Crash, Announce, records
  <2> QED
    BY <2>1 DEF OnlyQueriesUntold
<1>3. CASE ~Crash /\ ~\E r \in Requests : Announce(r)
  <2>1. PICK r \in Requests : Begins(r) \/ Transacts(r) \/ Reads(r) \/ Follows(r) \/ Writes(r)
    BY <1>3, NextCases
  <2>2. Alone(r) /\ told' = told /\ pc[r] # "announcing"
    <3>1. CASE Begins(r)
      BY <3>1, BeginsAlone
    <3>2. CASE Transacts(r)
      BY <1>3, <3>2, GoesOnAlone DEF Transacts, Commit, Announce, Fail, LookUp, StoreQuery, facts, records
    <3>3. CASE Reads(r) \/ Follows(r) \/ Writes(r)
      BY <3>3, GoesOnAlone DEF Reads, GetSelection, GetSelectionFails, GetQueryAsBlob, GetBlob,
        Redirected, Follows, Subscribe, Load, Leave, Writes, PutEnds, PutFails, facts, records
    <3> QED
      BY <2>1, <3>1, <3>2, <3>3
  <2>3. \A s \in Requests : pc[s] = "announcing" => pc'[s] = "announcing" /\ Changes(s)' = Changes(s)
    BY <2>2, ChangesStay DEF Alone
  <2>4. ASSUME NEW x, (x \in source') # (x \in source)
        PROVE  \/ \E q \in Queries : x \in Registration(q)
               \/ \E s \in Requests : pc'[s] = "announcing" /\ x \in Changes(s)'
    <3>1. CASE Commit(r)
      <4>1. x \in Changes(r) /\ pc'[r] = "announcing" /\ Changes(r)' = Changes(r)
        BY <1>1, <2>4, <3>1, GoesOnAlone, ChangesStay DEF Commit, Transact, Changes, Goes, Types, Transacts
      <4> QED
        BY <4>1
    <3>2. CASE StoreQuery(r)
      <4>1. Stands(r)
        BY DEF IInv, Requested
      <4>2. op[r] \in QueryOps /\ x \in Asserted(r) \cup Retracted(r)
        BY <2>4, <3>2, <4>1 DEF StoreQuery, Transact, Stands
      <4> QED
        BY <4>2, OpsKinds, ChangesOf
    <3>3. CASE ~Commit(r) /\ ~StoreQuery(r)
      <4>1. source' = source
        BY <1>3, <2>1, <3>3, BeginsAlone DEF Transacts, Fail, LookUp, Reads, GetSelection,
          GetSelectionFails, GetQueryAsBlob, GetBlob, Follows, Subscribe, Load, Leave, Writes,
          PutEnds, PutFails, facts, records
      <4> QED
        BY <2>4, <4>1
    <3> QED
      BY <3>1, <3>2, <3>3
  <2>5. ASSUME NEW x, (x \in source') # (x \in told')
        PROVE  \/ \E q \in Queries : x \in Registration(q)
               \/ \E s \in Requests : pc'[s] = "announcing" /\ x \in Changes(s)'
    <3>1. CASE (x \in source') = (x \in source)
      <4>1. x \in (source \ told) \cup (told \ source)
        BY <2>2, <2>5, <3>1
      <4>2. \/ \E q \in Queries : x \in Registration(q)
            \/ \E s \in Requests : pc[s] = "announcing" /\ x \in Changes(s)
        BY <1>1, <4>1 DEF OnlyQueriesUntold
      <4> QED
        BY <2>3, <4>2
    <3> QED
      BY <2>4, <3>1
  <2>6. \A q \in Queries : Registration(q)' = Registration(q)
    BY DEF Registration, Named, Bytes
  <2>7. \A x \in ((source \ told) \cup (told \ source))' : (x \in source') # (x \in told')
    OBVIOUS
  <2> QED
    BY <2>5, <2>6, <2>7 DEF OnlyQueriesUntold
<1> QED
  BY <1>2, <1>3

LEMMA CrashRequested == ASSUME IInv, Crash PROVE Requested'
<1>1. Types
  BY TypeParts DEF IInv
<1>2. ASSUME NEW r \in Requests PROVE Stands(r)' /\ Kept(r)' /\ Put(r)' /\ ChannelOf(r)'
  <2>1. /\ op'[r] = op[r] /\ status'[r] = status[r] /\ body'[r] = body[r]
        /\ stated' = stated /\ claimed' = claimed /\ source' = source /\ retracted' = retracted
        /\ pc'[r] = IF pc[r] \in Working THEN "lost" ELSE pc[r]
    BY <1>1 DEF Crash, answers, records, Types
  <2>2. Stands(r) /\ Kept(r)
    BY DEF IInv, Requested
  <2>3. Stands(r)'
    BY <2>1, <2>2 DEF Stands, Working
  <2>4. Kept(r)'
    BY <2>1, <2>2, EnteredStays DEF Kept, Working, Described
  <2>5. Put(r)' /\ ChannelOf(r)'
    BY <2>1 DEF Put, ChannelOf, Working
  <2> QED
    BY <2>3, <2>4, <2>5
<1> QED
  BY <1>2 DEF Requested

LEMMA RequestedStep == ASSUME IInv, Next PROVE Requested'
<1>1. CASE Crash
  BY <1>1, CrashRequested
<1>2. CASE ~Crash
  <2>1. PICK r \in Requests : Begins(r) \/ Transacts(r) \/ Reads(r) \/ Follows(r) \/ Writes(r)
    BY <1>2, NextCases
  <2>2. Alone(r)
    BY <2>1, BeginsAlone, GoesOnAlone
  <2>3. Stands(r)' /\ Kept(r)' /\ ChannelOf(r)'
    BY <2>1, BeginsStands, TransactsStands, ReadsStands, FollowsStands, WritesStands
  <2>4. ASSUME NEW s \in Requests PROVE Stands(s)' /\ Kept(s)' /\ Put(s)' /\ ChannelOf(s)'
    BY <1>2, <2>2, <2>3, OthersStay, PutStep
  <2> QED
    BY <2>4 DEF Requested
<1> QED
  BY <1>1, <1>2

LEMMA NextInv == IInv /\ [Next]_vars => IInv'
<1> SUFFICES ASSUME IInv, [Next]_vars PROVE IInv'
  OBVIOUS
<1>1. CASE Next
  <2>1. TypeOK' /\ InMemory' /\ Types'
    BY <1>1, TypeStep, TypesStep
  <2>2. Requested'
    BY <1>1, RequestedStep
  <2>3. Paired' /\ Backed' /\ Held' /\ Gotten' /\ OnlyQueriesUntold'
    BY <1>1, PairedStep, BackedStep, HeldStep, GottenStep, UntoldStep
  <2> QED
    BY <2>1, <2>2, <2>3 DEF IInv
<1>2. CASE UNCHANGED vars
  BY <1>2 DEF vars, stores, facts, records, channels, answers, IInv, TypeOK, Requested, Stands, Kept,
    Entered, Put, ChannelOf, Sound, Paired, Backed, Held, InMemory, Gotten, OnlyQueriesUntold,
    Asserted, Retracted, Changes
<1> QED
  BY <1>1, <1>2

-----------------------------------------------------------------------------
(* The theorems: what holds in every behaviour of the service. *)
THEOREM Invariance == Spec => []IInv
BY InitInv, NextInv, PTL DEF Spec

(* A channel in the map of live queries has a client that follows it, and a file
   that is written is not whole. *)
THEOREM TypeCorrect == Spec => []TypeOK
<1>1. IInv => TypeOK
  BY DEF IInv
<1> QED
  BY <1>1, Invariance, PTL

(* What the facts say of a blob is in the store, unless it was put twice, and
   so is what clients get, unless a client made up the facts: importBlob, edit,
   head and getBlob. *)
THEOREM ContentStored == Spec => []ContentBehindFacts
<1>1. IInv => ContentBehindFacts
  BY DEF IInv, Gotten, Backed, Held, Sound, ContentBehindFacts
<1> QED
  BY <1>1, Invariance, PTL

(* A client that follows the redirect of importQuery finds the query, unless an
   edit has tampered with what is stored of it. *)
THEOREM QueriesServed == Spec => RedirectServed
<1>1. IInv /\ [Next]_vars =>
        [\A r \in Requests :
           op[r] # None /\ op[r].kind = "query" /\ op[r].accept # "query"
             /\ status[r] # 404 /\ status'[r] = 404 =>
           body'[r] = "reason" \/ Tampered(op[r].of)]_vars
  BY RedirectStep
<1> QED
  BY <1>1, Invariance, PTL DEF Spec, RedirectServed

(* Acknowledged changes stand, also after a stop, until a later edit changes the
   same facts. *)
THEOREM Acknowledged == Spec => []AcknowledgedKept
<1>1. IInv => AcknowledgedKept
  BY DEF IInv, Requested, Kept, Entered, Confirmed, AcknowledgedKept
<1> QED
  BY <1>1, Invariance, PTL

(* Subscriptions are told of all facts but the queries that clients put. *)
THEOREM OthersTold == Spec => []OnlyQueriesUntold
<1>1. IInv => OnlyQueriesUntold
  BY DEF IInv
<1> QED
  BY <1>1, Invariance, PTL
=============================================================================
