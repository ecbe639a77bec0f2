-------------------------------- MODULE Hybrid --------------------------------
(***************************************************************************)
(* The hybrid source of src/source/hybrid.js: an ephemeral and a durable   *)
(* data source behind one interface.  A transaction performs its ephemeral *)
(* instructions first, and then its durable ones as a job of its own; jobs *)
(* wait for one another through HybridSource.writable.  Merges with a      *)
(* remote source are jobs in the same chain.  After each durable           *)
(* transaction its root is kept in the ephemeral source, as ~/durable.     *)
(*                                                                         *)
(* Either source commits one transaction at a time, all or nothing (see    *)
(* FactStore); a commit is named by its call, and a root of the durable    *)
(* source is the number of commits made so far.                            *)
(***************************************************************************)
EXTENDS Integers, Sequences, FiniteSets

CONSTANT Calls     \* the number of calls (the bound of the model)

ASSUME CallsAssumption == Calls \in Nat

VARIABLES
  kind,         \* what a call is
  step,         \* how far it has come
  ephemeral,    \* the calls whose ephemeral part is committed, in order
  durable,      \* the calls that changed the durable source, in order
  pointer,      \* the root kept as ~/durable, 0 before the first
  writable,     \* the job to wait for next, 0 initially
  waitsFor,     \* the job a call's job waits for
  ticket,       \* history: the number of a call's job in the chain
  jobs          \* history: how many jobs there are

sources == <<ephemeral, durable, pointer>>
chain == <<writable, waitsFor, ticket, jobs>>
vars == <<kind, step, sources, chain>>

Ids == 1 .. Calls
Job == {"waiting", "writing", "pointing", "merging"}
Steps == {"new", "begun", "announcing", "returned", "failed"} \cup Job

TypeOK ==
  /\ kind \in [Ids -> {"local", "durable", "merge"}]
  /\ step \in [Ids -> Steps]
  /\ ephemeral \in Seq(Ids) /\ durable \in Seq(Ids)
  /\ pointer \in 0 .. Len(durable)
  /\ writable \in Ids \cup {0} /\ waitsFor \in [Ids -> Ids \cup {0}]
  /\ jobs = Cardinality({c \in Ids : ticket[c] # 0})
  /\ \A c \in Ids : ticket[c] \in 0 .. jobs /\ (step[c] \in Job => ticket[c] # 0)

Init ==
  /\ kind = [c \in Ids |-> "local"]
  /\ step = [c \in Ids |-> "new"]
  /\ ephemeral = <<>> /\ durable = <<>> /\ pointer = 0
  /\ writable = 0 /\ waitsFor = [c \in Ids |-> 0]
  /\ ticket = [c \in Ids |-> 0] /\ jobs = 0

-----------------------------------------------------------------------------
Goes(c, s) == step' = [step EXCEPT ![c] = s]

Arrives(c) == step[c] = "new" /\ \A b \in 1 .. c - 1 : step[b] # "new"

(* Deviation: the job waits, but no later one waits for it. *)
EnqueueUnseen(c) ==
  /\ Goes(c, "waiting")
  /\ waitsFor' = [waitsFor EXCEPT ![c] = writable]
  /\ ticket' = [ticket EXCEPT ![c] = jobs + 1] /\ jobs' = jobs + 1
  /\ UNCHANGED writable

(* Deviation: the job becomes the last one before it looks for the last one. *)
EnqueueItself(c) ==
  /\ Goes(c, "waiting")
  /\ waitsFor' = [waitsFor EXCEPT ![c] = c]
  /\ writable' = c
  /\ ticket' = [ticket EXCEPT ![c] = jobs + 1] /\ jobs' = jobs + 1

(* The job of a call is spawned, runs up to waiting for the last one, and
   becomes the last one itself. *)
Enqueue(c) ==
  /\ Goes(c, "waiting")
  /\ waitsFor' = [waitsFor EXCEPT ![c] = writable]
  /\ writable' = c
  /\ ticket' = [ticket EXCEPT ![c] = jobs + 1] /\ jobs' = jobs + 1

(* transact: instructions on attributes ~/... are set apart, and the ephemeral
   source performs them, even if there are none. *)
Transact(c) ==
  /\ Arrives(c)
  /\ \E k \in {"local", "durable"} : kind' = [kind EXCEPT ![c] = k]
  /\ Goes(c, "begun")
  /\ UNCHANGED <<sources, chain>>

(* Deviation: the durable part is written without a job. *)
CommitEphemeralUnqueued(c) ==
  /\ step[c] = "begun"
  /\ ephemeral' = Append(ephemeral, c)
  /\ Goes(c, IF kind[c] = "durable" THEN "writing" ELSE "announcing")
  /\ UNCHANGED <<kind, durable, pointer, chain>>

(* The ephemeral part is done; the call goes on at once. *)
CommitEphemeral(c) ==
  /\ step[c] = "begun"
  /\ ephemeral' = Append(ephemeral, c)
  /\ IF kind[c] = "durable" THEN Enqueue(c) ELSE Goes(c, "announcing") /\ UNCHANGED chain
  /\ UNCHANGED <<kind, durable, pointer>>

(* merge: a job at once. *)
Merge(c) ==
  /\ Arrives(c)
  /\ kind' = [kind EXCEPT ![c] = "merge"]
  /\ Enqueue(c)
  /\ UNCHANGED sources

(* Deviation: the job does not wait. *)
BeginJobEarly(c) ==
  /\ step[c] = "waiting"
  /\ Goes(c, IF kind[c] = "merge" THEN "merging" ELSE "writing")
  /\ UNCHANGED <<kind, sources, chain>>

(* A job is settled when it has returned or thrown. *)
Settled(c) == c # 0 => step[c] \in {"announcing", "returned", "failed"}

BeginJob(c) ==
  /\ step[c] = "waiting" /\ Settled(waitsFor[c])
  /\ Goes(c, IF kind[c] = "merge" THEN "merging" ELSE "writing")
  /\ UNCHANGED <<kind, sources, chain>>

CommitDurable(c) ==
  /\ step[c] = "writing"
  /\ durable' = Append(durable, c)
  /\ Goes(c, "pointing")
  /\ UNCHANGED <<kind, ephemeral, pointer, chain>>

(* updateDurable: the root that the durable commit returned replaces the one
   that is kept. *)
CommitPointer(c) ==
  /\ step[c] = "pointing"
  /\ pointer' = CHOOSE n \in 1 .. Len(durable) : durable[n] = c
  /\ Goes(c, "announcing")
  /\ UNCHANGED <<kind, ephemeral, durable, chain>>

(* What differs at the remote source is integrated, if anything does. *)
CommitMerge(c) ==
  /\ step[c] = "merging"
  /\ \/ durable' = Append(durable, c)
     \/ UNCHANGED durable
  /\ Goes(c, "returned")
  /\ UNCHANGED <<kind, ephemeral, pointer, chain>>

(* The commit is announced on the transaction channel; transact returns. *)
Announce(c) ==
  /\ step[c] = "announcing"
  /\ Goes(c, "returned")
  /\ UNCHANGED <<kind, sources, chain>>

(* A transaction of either source throws, or the remote one cannot be read. *)
Fail(c) ==
  /\ step[c] \in {"begun", "writing", "pointing", "merging"}
  /\ Goes(c, "failed")
  /\ UNCHANGED <<kind, sources, chain>>

Advance(c) ==
  \/ CommitEphemeral(c) \/ BeginJob(c) \/ CommitDurable(c) \/ CommitPointer(c)
  \/ CommitMerge(c) \/ Announce(c) \/ Fail(c)

Next == \E c \in Ids : Transact(c) \/ Merge(c) \/ Advance(c)

Spec == Init /\ [][Next]_vars

(* The sources and the remote one answer, with an error if need be. *)
FairSpec == Spec /\ \A c \in Ids : WF_vars(Advance(c))

-----------------------------------------------------------------------------
(* The jobs are a serial executor: none is begun before the one in front of it
   in the chain has settled, whichever kind the two are and even if it failed. *)
Active == {ticket[c] : c \in {c \in Ids : step[c] \in Job \ {"waiting"}}}
Begun == {ticket[c] : c \in {c \in Ids : ticket[c] # 0 /\ step[c] # "waiting"}}
Serial == INSTANCE SerialExecutor WITH issued <- jobs, begun <- Begun, active <- Active

ImplementsSerial == Serial!SerialSpec

(* The two parts of transactions are committed in one order: what comes later
   in the ephemeral source does in the durable one too. *)
Before(log, c, d) == \E i, j \in DOMAIN log : i < j /\ log[i] = c /\ log[j] = d

SameOrder == \A c, d \in Ids :
  Before(durable, c, d) /\ kind[c] = "durable" /\ kind[d] = "durable" => Before(ephemeral, c, d)

(* The kept root is that of the last transaction that returned: the durable
   source has changed since only by merges, by a transaction that is about to
   keep its root, or by one that failed to. *)
RootKept ==
  /\ pointer # 0 => kind[durable[pointer]] = "durable"
  /\ \A n \in pointer + 1 .. Len(durable) :
       kind[durable[n]] = "merge" \/ step[durable[n]] \in {"pointing", "failed"}

(* Every call comes to an end, though the jobs before its own may fail. *)
EveryCallEnds == \A c \in Ids : (step[c] # "new") ~> (step[c] \in {"returned", "failed"})
=============================================================================
