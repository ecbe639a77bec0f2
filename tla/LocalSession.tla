----------------------------- MODULE LocalSession -----------------------------
(***************************************************************************)
(* The local session of src/replica/session/local.js: transactions commit  *)
(* to the source and then announce the commit on the session's channel     *)
(* (class Channel of src/replica/sync.js, a rendezvous without a buffer);  *)
(* subscriptions wait on the channel, evaluate their query again and pass  *)
(* on the selection if it is a new one.                                    *)
(*                                                                         *)
(* The source is a function from parts to values.  A query scans the parts *)
(* one by one, as DB.query does, each scan in a transaction of its own.    *)
(***************************************************************************)
EXTENDS Integers, Sequences

CONSTANTS
  Subscriptions,   \* the subscriptions of the session
  Writers,         \* the clients that transact
  Parts,           \* number of scans one query takes
  Values,          \* what a part of the source may hold
  MaxCommits,      \* bound on the transactions of a behaviour
  Nothing          \* a revision no selection has

ASSUME SessionAssumption ==
  /\ Parts \in Nat \ {0}
  /\ MaxCommits \in Nat
  /\ Nothing \notin [1 .. Parts -> Values]

VARIABLES
  db,          \* what the source holds
  commits,     \* number of committed transactions
  pending,     \* pending[w]: the commit w has yet to announce, 0 if none
  phase,       \* where the pull loop of a subscription stands
  scanned,     \* the scans made by the evaluation in progress
  revision,    \* LocalSubscription.revision
  buffer,      \* what the stream holds for its consumer: at most one selection
  cancelled,   \* LocalSubscription.cancelled
  delivered,   \* history: the last selection put into the stream
  due,         \* history: the latest commit announced to the subscription
  readAt       \* history: commits made when its last evaluation began to scan

sourceVars == <<db, commits, pending>>
subVars == <<phase, scanned, revision, buffer, cancelled, delivered, due, readAt>>
vars == <<sourceVars, subVars>>

Selections == [1 .. Parts -> Values]
Phases == {"idle", "parked", "notified", "querying", "ready", "stopped"}

TypeOK ==
  /\ db \in Selections
  /\ commits \in 0 .. MaxCommits
  /\ pending \in [Writers -> 0 .. MaxCommits]
  /\ phase \in [Subscriptions -> Phases]
  /\ scanned \in [Subscriptions -> Seq(Values)]
  /\ \A s \in Subscriptions : Len(scanned[s]) <= Parts
  /\ revision \in [Subscriptions -> Selections \cup {Nothing}]
  /\ buffer \in [Subscriptions -> Selections \cup {Nothing}]
  /\ cancelled \in [Subscriptions -> BOOLEAN]
  /\ delivered \in [Subscriptions -> Selections \cup {Nothing}]
  /\ due \in [Subscriptions -> 0 .. MaxCommits]
  /\ readAt \in [Subscriptions -> 0 .. MaxCommits]
  /\ \A s \in Subscriptions :
       /\ buffer[s] # Nothing => phase[s] = "idle"
       /\ phase[s] = "parked" => revision[s] # Nothing

Init ==
  /\ db \in Selections
  /\ commits = 0
  /\ pending = [w \in Writers |-> 0]
  /\ phase = [s \in Subscriptions |-> "idle"]
  /\ scanned = [s \in Subscriptions |-> <<>>]
  /\ revision = [s \in Subscriptions |-> Nothing]
  /\ buffer = [s \in Subscriptions |-> Nothing]
  /\ cancelled = [s \in Subscriptions |-> FALSE]
  /\ delivered = [s \in Subscriptions |-> Nothing]
  /\ due = [s \in Subscriptions |-> 0]
  /\ readAt = [s \in Subscriptions |-> 0]

-----------------------------------------------------------------------------
(* DB.transact: the changes of a transaction become visible together. *)
Commit(w) ==
  /\ pending[w] = 0
  /\ commits < MaxCommits
  /\ db' \in Selections
  /\ commits' = commits + 1
  /\ pending' = [pending EXCEPT ![w] = commits + 1]
  /\ UNCHANGED subVars

Parked == {s \in Subscriptions : phase[s] = "parked"}

(* Deviation: the channel is written before the transaction is committed. *)
AnnounceFirst(w) ==
  /\ pending[w] = 0
  /\ commits < MaxCommits
  /\ phase' = [s \in Subscriptions |-> IF s \in Parked THEN "notified" ELSE phase[s]]
  /\ due' = [s \in Subscriptions |-> IF s \in Parked THEN commits + 1 ELSE due[s]]
  /\ UNCHANGED <<sourceVars, scanned, revision, buffer, cancelled, delivered, readAt>>

(* channel.write(commit): resolves the promise the parked subscriptions wait
   on and puts a new one in its place.  Whoever is not parked hears nothing. *)
Announce(w) ==
  /\ pending[w] # 0
  /\ pending' = [pending EXCEPT ![w] = 0]
  /\ phase' = [s \in Subscriptions |-> IF s \in Parked THEN "notified" ELSE phase[s]]
  /\ due' = [s \in Subscriptions |-> IF s \in Parked THEN pending[w] ELSE due[s]]
  /\ UNCHANGED <<db, commits, scanned, revision, buffer, cancelled, delivered, readAt>>

-----------------------------------------------------------------------------
(* An evaluation begins with nothing scanned; waiting for a commit means
   taking the channel's current promise. *)
Evaluate(s) ==
  /\ phase' = [phase EXCEPT ![s] = "querying"]
  /\ scanned' = [scanned EXCEPT ![s] = <<>>]

Park(s) == phase' = [phase EXCEPT ![s] = "parked"] /\ UNCHANGED scanned

Stop(s) == phase' = [phase EXCEPT ![s] = "stopped"] /\ UNCHANGED scanned

(* Deviation: the source is pulled although the stream is still full. *)
PullWhenFull(s) ==
  /\ phase[s] = "idle"
  /\ IF cancelled[s] THEN Stop(s)
     ELSE IF revision[s] = Nothing THEN Evaluate(s)
     ELSE Park(s)
  /\ UNCHANGED <<sourceVars, revision, buffer, cancelled, delivered, due, readAt>>

(* The consumer wants a selection: evaluate at once if none was ever produced,
   wait for a commit otherwise. *)
Pull(s) ==
  /\ phase[s] = "idle" /\ buffer[s] = Nothing
  /\ IF cancelled[s] THEN Stop(s)
     ELSE IF revision[s] = Nothing THEN Evaluate(s)
     ELSE Park(s)
  /\ UNCHANGED <<sourceVars, revision, buffer, cancelled, delivered, due, readAt>>

(* Deviation: woken, the loop goes back to waiting without an evaluation. *)
ResumeParks(s) ==
  /\ phase[s] = "notified"
  /\ IF cancelled[s] THEN Stop(s) ELSE Park(s)
  /\ UNCHANGED <<sourceVars, revision, buffer, cancelled, delivered, due, readAt>>

(* The promise it waited on was resolved. *)
Resume(s) ==
  /\ phase[s] = "notified"
  /\ IF cancelled[s] THEN Stop(s) ELSE Evaluate(s)
  /\ UNCHANGED <<sourceVars, revision, buffer, cancelled, delivered, due, readAt>>

(* One scan of the query. *)
Scan(s) ==
  /\ phase[s] = "querying"
  /\ Len(scanned[s]) < Parts
  /\ scanned' = [scanned EXCEPT ![s] = Append(@, db[Len(@) + 1])]
  /\ readAt' = [readAt EXCEPT ![s] = IF scanned[s] = <<>> THEN commits ELSE @]
  /\ UNCHANGED <<sourceVars, phase, revision, buffer, cancelled, delivered, due>>

(* The query fails: the stream is closed for good. *)
Fail(s) ==
  /\ phase[s] = "querying"
  /\ Stop(s)
  /\ cancelled' = [cancelled EXCEPT ![s] = TRUE]
  /\ UNCHANGED <<sourceVars, revision, buffer, delivered, due, readAt>>

(* Deviation: every selection is passed on, the same one included. *)
CompareNothing(s) ==
  /\ phase[s] = "querying"
  /\ Len(scanned[s]) = Parts
  /\ phase' = [phase EXCEPT ![s] = "ready"]
  /\ revision' = [revision EXCEPT ![s] = scanned[s]]
  /\ UNCHANGED <<sourceVars, scanned, buffer, cancelled, delivered, due, readAt>>

(* All parts are scanned: a selection that differs from the last one becomes
   the revision, any other sends the loop back to waiting. *)
Compare(s) ==
  /\ phase[s] = "querying"
  /\ Len(scanned[s]) = Parts
  /\ IF cancelled[s] THEN Stop(s) /\ UNCHANGED revision
     ELSE IF scanned[s] = revision[s] THEN Park(s) /\ UNCHANGED revision
     ELSE /\ phase' = [phase EXCEPT ![s] = "ready"]
          /\ revision' = [revision EXCEPT ![s] = scanned[s]]
          /\ UNCHANGED scanned
  /\ UNCHANGED <<sourceVars, buffer, cancelled, delivered, due, readAt>>

(* The pull resumes with the selection and enqueues it; the stream refuses it
   if it was cancelled meanwhile. *)
Enqueue(s) ==
  /\ phase[s] = "ready"
  /\ phase' = [phase EXCEPT ![s] = IF cancelled[s] THEN "stopped" ELSE "idle"]
  /\ buffer' = [buffer EXCEPT ![s] = IF cancelled[s] THEN @ ELSE revision[s]]
  /\ delivered' = [delivered EXCEPT ![s] = IF cancelled[s] THEN @ ELSE revision[s]]
  /\ UNCHANGED <<sourceVars, scanned, revision, cancelled, due, readAt>>

(* The broadcast in front of the stream reads the selection. *)
Consume(s) ==
  /\ buffer[s] # Nothing
  /\ buffer' = [buffer EXCEPT ![s] = Nothing]
  /\ UNCHANGED <<sourceVars, phase, scanned, revision, cancelled, delivered, due, readAt>>

(* The consumer cancels the stream, which drops what it held. *)
Cancel(s) ==
  /\ ~cancelled[s]
  /\ cancelled' = [cancelled EXCEPT ![s] = TRUE]
  /\ buffer' = [buffer EXCEPT ![s] = Nothing]
  /\ UNCHANGED <<sourceVars, phase, scanned, revision, delivered, due, readAt>>

Advance(s) == Pull(s) \/ Resume(s) \/ Scan(s) \/ Compare(s) \/ Enqueue(s) \/ Consume(s)

Next ==
  \/ \E w \in Writers : Commit(w) \/ Announce(w)
  \/ \E s \in Subscriptions : Advance(s) \/ Fail(s) \/ Cancel(s)

Spec == Init /\ [][Next]_vars

(* The event loop runs what can continue; the broadcast always reads.  Clients
   need not transact or cancel. *)
Fairness ==
  /\ \A w \in Writers : WF_vars(Announce(w))
  /\ \A s \in Subscriptions : WF_vars(Advance(s))

FairSpec == Spec /\ Fairness

-----------------------------------------------------------------------------
(* A subscription woken by the announcement of a commit evaluates its query
   on a source that holds the commit: no scan of it is older. *)
WokenSeesCommit ==
  \A s \in Subscriptions :
    readAt[s] >= due[s] \/ phase[s] \in {"notified", "stopped"}
                        \/ (phase[s] = "querying" /\ scanned[s] = <<>>)

(* A consumer never gets the selection it got last, and gets none at all once
   it has cancelled, whatever was in progress then. *)
OnlyNewSelections ==
  [][\A s \in Subscriptions :
       buffer[s] = Nothing /\ buffer'[s] # Nothing =>
         ~cancelled[s] /\ buffer'[s] # delivered[s]]_vars

(* Every announcement that reaches a waiting subscription is answered by an
   evaluation that began after the commit, unless the stream has ended. *)
AnnouncementAnswered ==
  \A s \in Subscriptions : \A c \in 1 .. MaxCommits :
    (due[s] = c) ~> (readAt[s] >= c \/ phase[s] = "stopped" \/ cancelled[s])
=============================================================================
