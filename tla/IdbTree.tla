------------------------------- MODULE IdbTree -------------------------------
(***************************************************************************)
(* The IndexedDB tree of src/store/idb/tree.js: write, clear and close are *)
(* serialised by a work queue (TaskQueue); the object store they change    *)
(* holds metadata, the leaf anchor and the entries of the tree.            *)
(*                                                                         *)
(* A write runs one job inside an IndexedDB transaction.  The job modelled *)
(* is the one the sources run: read the root, then edit entries.  The      *)
(* caller of a write gets its invocation and may abort it while it waits;  *)
(* the queue then lets work overlap, and IndexedDB itself keeps the        *)
(* transactions apart, in the order in which they were made.               *)
(*                                                                         *)
(* A transaction outlives the task that made it: a call that throws, and a *)
(* clear, release the queue while IndexedDB has yet to complete what they  *)
(* asked for or to give it up.                                             *)
(***************************************************************************)
EXTENDS TaskQueue

CONSTANT MaxEdits        \* bound on the edits of one job

ASSUME EditsAssumption == MaxEdits \in Nat

VARIABLES
  open,      \* Tree.#open
  kind,      \* what the t-th queued call was
  stage,     \* how far the job of a write has come
  txs,       \* the transactions under way, named by task, oldest first
  txn,       \* edits made in the transaction of task t
  fate,      \* what became of the transaction of task t
  anchor,    \* the object store holds metadata and the leaf anchor
  entries,   \* the committed edits, in the order they were stored
  result     \* what the call returned

storeVars == <<anchor, entries>>
treeVars == <<open, kind, stage, txs, txn, fate, anchor, entries, result>>
vars == <<queueVars, treeVars>>

Kinds == {"none", "write", "clear", "close"}
Stages == {"begin", "editing", "committing"}
Fates == {"none", "open", "doomed", "stored", "lost"}
Results == {"pending", "ok", "error"}
Edit == [task : Tasks, edit : 1 .. MaxEdits]

TypeOK ==
  /\ QueueTypeOK
  /\ open \in BOOLEAN
  /\ kind \in [Tasks -> Kinds]
  /\ stage \in [Tasks -> Stages]
  /\ txs \in Seq(Tasks)
  /\ txn \in [Tasks -> 0 .. MaxEdits]
  /\ fate \in [Tasks -> Fates]
  /\ anchor \in BOOLEAN
  /\ entries \in Seq(Edit)
  /\ result \in [Tasks -> Results]

(* open() has initialised the object store and returned the tree. *)
Init ==
  /\ QueueInit
  /\ open = TRUE
  /\ kind = [t \in Tasks |-> "none"]
  /\ stage = [t \in Tasks |-> "begin"]
  /\ txs = <<>>
  /\ txn = [t \in Tasks |-> 0]
  /\ fate = [t \in Tasks |-> "none"]
  /\ anchor = TRUE
  /\ entries = <<>>
  /\ result = [t \in Tasks |-> "pending"]

-----------------------------------------------------------------------------
(* The work of a write or a clear begins with a transaction of its own, that
   of a close with none. *)
Begin(t, k) ==
  IF k = "close" THEN UNCHANGED <<txs, fate>>
  ELSE txs' = Append(txs, t) /\ fate' = [fate EXCEPT ![t] = "open"]

(* A call joins the queue as its next task, and begins at once if it is alone. *)
Enqueue(k) ==
  /\ Spawn
  /\ kind' = [kind EXCEPT ![spawned + 1] = k]
  /\ IF queue = <<>> THEN Begin(spawned + 1, k) ELSE UNCHANGED <<txs, fate>>
  /\ UNCHANGED <<stage, txn, anchor, entries, result>>

(* write(job): refused once the tree is closed. *)
Write == open /\ Enqueue("write") /\ UNCHANGED open

(* clear(): refused once the tree is closed. *)
Clear == open /\ Enqueue("clear") /\ UNCHANGED open

(* Deviation: the tree is not flagged, only its queue is drained. *)
CloseUnflagged == Enqueue("close") /\ UNCHANGED open

(* close(): flags the tree, then queues behind everything accepted before. *)
Close == Enqueue("close") /\ open' = FALSE

(* A queued call gets its turn. *)
Turn(t) ==
  /\ Start(t)
  /\ Begin(t, kind[t])
  /\ UNCHANGED <<open, kind, stage, txn, anchor, entries, result>>

(* The caller of a write aborts it before its turn. *)
Abort(t) ==
  /\ Abandon(t) /\ kind[t] = "write"
  /\ result' = [result EXCEPT ![t] = "error"]
  /\ UNCHANGED <<open, kind, stage, txs, txn, fate, anchor, entries>>

(* The call of task t returns or throws, which releases the queue; its
   transaction, if it is still under way, goes on by itself. *)
Return(t, outcome) ==
  /\ Finish(t)
  /\ result' = [result EXCEPT ![t] = outcome]
  /\ UNCHANGED <<open, kind, stage, txs, txn, anchor, entries>>

Working(t, k) == Running(t) /\ kind[t] = k

(* The requests of a transaction are served when those before it are over. *)
Served(t) == txs # <<>> /\ Head(txs) = t

(* The job asks for the root, which exists only if the anchor does. *)
ReadRoot(t) ==
  /\ Working(t, "write") /\ Served(t) /\ stage[t] = "begin" /\ anchor
  /\ stage' = [stage EXCEPT ![t] = "editing"]
  /\ UNCHANGED <<queueVars, open, kind, txs, txn, fate, anchor, entries, result>>

RootMissing(t) ==
  /\ Working(t, "write") /\ Served(t) /\ stage[t] = "begin" /\ ~anchor
  /\ Return(t, "error") /\ UNCHANGED fate

(* The job edits the tree: visible to nobody else yet. *)
EditEntry(t) ==
  /\ Working(t, "write") /\ stage[t] = "editing"
  /\ txn[t] < MaxEdits
  /\ txn' = [txn EXCEPT ![t] = @ + 1]
  /\ UNCHANGED <<queueVars, open, kind, stage, txs, fate, anchor, entries, result>>

(* The job throws: nobody aborts the IndexedDB transaction, which is left to
   commit by itself what the job had done so far. *)
JobThrows(t) ==
  /\ Working(t, "write") /\ stage[t] = "editing"
  /\ Return(t, "error") /\ UNCHANGED fate

(* A request of a write or a clear fails.  poll() throws its error and leaves
   the default action to IndexedDB, which aborts the transaction. *)
RequestFails(t) ==
  /\ Served(t)
  /\ \/ Working(t, "write") /\ stage[t] # "committing"
     \/ Working(t, "clear")
  /\ fate' = [fate EXCEPT ![t] = "doomed"]
  /\ Return(t, "error")

(* Deviation: the write returns without a commit. *)
JobReturnsUncommitted(t) ==
  /\ Working(t, "write") /\ stage[t] = "editing"
  /\ Return(t, "ok") /\ UNCHANGED fate

(* The job returns and the write calls transaction.commit(). *)
JobReturns(t) ==
  /\ Working(t, "write") /\ stage[t] = "editing"
  /\ stage' = [stage EXCEPT ![t] = "committing"]
  /\ UNCHANGED <<queueVars, open, kind, txs, txn, fate, anchor, entries, result>>

(* The `complete` event resumes the write, the one event it waits for. *)
WriteReturns(t) ==
  /\ Working(t, "write") /\ stage[t] = "committing" /\ fate[t] = "stored"
  /\ Return(t, "ok") /\ UNCHANGED fate

(* clear() returns when its request has succeeded: the transaction is not
   waited for. *)
ClearReturns(t) ==
  /\ Working(t, "clear") /\ Served(t)
  /\ Return(t, "ok") /\ UNCHANGED fate

(* The work of close() does nothing: its turn is all it waited for. *)
Closed(t) ==
  /\ Working(t, "close")
  /\ Return(t, "ok") /\ UNCHANGED fate

Step(t) ==
  \/ Turn(t) \/ ReadRoot(t) \/ RootMissing(t) \/ EditEntry(t) \/ JobThrows(t)
  \/ RequestFails(t) \/ JobReturns(t) \/ WriteReturns(t) \/ ClearReturns(t)
  \/ Closed(t)

-----------------------------------------------------------------------------
(* IndexedDB ends the oldest transaction once nobody makes requests in it. *)
Ends(t, outcome) ==
  /\ Served(t)
  /\ Settled(t) \/ stage[t] = "committing"
  /\ txs' = Tail(txs)
  /\ fate' = [fate EXCEPT ![t] = outcome]
  /\ UNCHANGED <<queueVars, open, kind, stage, txn, result>>

(* The edits of task t reach the object store. *)
Stored(t) == entries \o [i \in 1 .. txn[t] |-> [task |-> t, edit |-> i]]

WriteCompletes(t) ==
  /\ kind[t] = "write" /\ fate[t] = "open"
  /\ Ends(t, "stored")
  /\ entries' = Stored(t) /\ UNCHANGED anchor

(* session.clear() empties the whole object store, metadata and anchor
   included. *)
ClearCompletes(t) ==
  /\ kind[t] = "clear" /\ fate[t] = "open"
  /\ Ends(t, "stored")
  /\ anchor' = FALSE /\ entries' = <<>>

(* The transaction is aborted: after a failed request, or because the commit
   itself fails. *)
Aborts(t) == Ends(t, "lost") /\ UNCHANGED storeVars

Database(t) == WriteCompletes(t) \/ ClearCompletes(t) \/ Aborts(t)

Next ==
  \/ Write \/ Clear \/ Close
  \/ \E t \in Tasks : Step(t) \/ Abort(t) \/ Database(t)

Spec == Init /\ [][Next]_vars

(* The event loop resumes every task that can continue.  That a job ends and
   that IndexedDB ends a transaction nobody makes requests in, one way or the
   other, are assumptions. *)
Fairness == \A t \in Tasks : WF_vars(Step(t)) /\ WF_vars(Database(t))

FairSpec == Spec /\ Fairness

-----------------------------------------------------------------------------
(* Calls keep their order, unless a write between them was aborted. *)
Ordered(s, t) == \A k \in (s + 1) .. (t - 1) : status[k] # "abandoned"

(* A write that returned without an error has been committed before, with all
   its edits; of one that threw either all edits made so far are stored, now or
   later, or none.  Stored edits stay until a clear that was called behind the
   write; when a write between the two was aborted, the clear may have come
   before or after the other, but it removes all of a write or nothing. *)
StoredAsTold ==
  \A t \in Tasks : kind[t] = "write" =>
    LET present == {entries[i].edit : i \in {j \in DOMAIN entries : entries[j].task = t}}
        cleared == {c \in Tasks : kind[c] = "clear" /\ fate[c] = "stored"}
    IN  /\ present \in {{}, 1 .. txn[t]}
        /\ result[t] = "ok" => fate[t] = "stored"
        /\ present # {} =>
             fate[t] = "stored" /\ \A c \in cleared : c > t => ~Ordered(t, c)
        /\ fate[t] = "stored" /\ present # 1 .. txn[t] =>
             \E c \in cleared : c > t \/ ~Ordered(c, t)

(* Once some close() has returned, no transaction is begun any more, and the
   stored tree changes at most by the end of one that a clear or a call that
   threw has left behind: what a write returned is stored already.  If a write
   in front of the close was aborted, close() may return while others still
   work. *)
LeftBehind(t) ==
  /\ fate[t] = "open" /\ status[t] = "done"
  /\ kind[t] = "clear" \/ result[t] = "error"

ClosedForGood ==
  [][(\E t \in Tasks : kind[t] = "close" /\ status[t] = "done" /\ Ordered(0, t)) =>
       /\ \A t \in Tasks : fate[t] = "none" => fate'[t] = "none"
       /\ \/ UNCHANGED storeVars
          \/ \E t \in Tasks : LeftBehind(t) /\ fate'[t] = "stored"]_vars

(* The write waits for the `complete` event only: when its commit fails it
   waits forever, and so do the calls behind it. *)
Stuck(t) == Working(t, "write") /\ stage[t] = "committing" /\ fate[t] = "lost"

(* Every accepted call returns, the close() behind the others included, unless
   it or a call in front of it is a write whose commit failed. *)
EveryCallReturns ==
  \A t \in Tasks :
    (kind[t] # "none") ~> (result[t] # "pending" \/ \E s \in 1 .. t : Stuck(s))
=============================================================================
