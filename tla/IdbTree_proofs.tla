--------------------------- MODULE IdbTree_proofs ---------------------------
(***************************************************************************)
(* Proofs about the IndexedDB tree and the work queue under it, for every  *)
(* number of calls, every bound on edits and every set of calls that a     *)
(* client may abort.  First the queue by itself (QueueSpec), then the tree;*)
(* last the writer of the tree (WriterSpec), for all keys and values and   *)
(* whichever hashes are small.                                             *)
(***************************************************************************)
EXTENDS IdbTree, IdbWriter, WellFoundedInduction, TLAPS

(* Outside spawn the queue holds exactly the invocation of the latest task. *)
LatestQueued == queue = IF spawned = 0 THEN <<>> ELSE <<spawned>>

(* Tasks are numbered by their spawn calls, and each waits for the one before. *)
LinkedInOrder ==
  \A t \in Tasks : IF t <= spawned THEN /\ status[t] # "idle"
                                        /\ last[t] = t - 1
                                   ELSE status[t] = "idle"

(* Once the work of t has begun, every earlier task has settled or is hidden
   behind a task that was abandoned while it waited. *)
BegunBehindSettled ==
  \A s, t \in Tasks :
    s < t /\ status[t] \in {"running", "done"} =>
      Settled(s) \/ \E k \in (s + 1) .. (t - 1) : status[k] = "abandoned"

QueueInv == QueueTypeOK /\ LatestQueued /\ LinkedInOrder /\ BegunBehindSettled

-----------------------------------------------------------------------------
LEMMA AppendToEmpty == ASSUME NEW x PROVE Append(<<>>, x) = <<x>>
OBVIOUS

(* Where the queue stands after spawn: the first task has nothing to wait
   for, every other one has popped its predecessor. *)
LEMMA SpawnEffect ==
  ASSUME QueueInv, Spawn
  PROVE  /\ spawned + 1 \in Tasks
         /\ spawned' = spawned + 1
         /\ queue' = <<spawned + 1>>
         /\ last' = [last EXCEPT ![spawned + 1] = spawned]
         /\ status' = [status EXCEPT
              ![spawned + 1] = IF spawned = 0 THEN "running" ELSE "waiting"]
<1> DEFINE popped == IF queue = <<>> THEN None ELSE queue[Len(queue)]
           kept == SubSeq(queue, 1, Len(queue) - 1)
<1>1. spawned \in Nat
  BY QueueAssumption DEF QueueInv, QueueTypeOK
<1>2. popped = spawned /\ kept = <<>>
  <2>1. CASE spawned = 0
    <3>1. queue = <<>>
      BY <2>1 DEF QueueInv, LatestQueued
    <3>2. kept = <<>>
      BY <3>1
    <3>3. QED
      BY <2>1, <3>1, <3>2 DEF None
  <2>2. CASE spawned # 0
    <3>1. queue = <<spawned>>
      BY <2>2 DEF QueueInv, LatestQueued
    <3>2. Len(queue) = 1 /\ queue[Len(queue)] = spawned /\ queue # <<>>
      BY <3>1
    <3>3. kept = <<>>
      BY <3>2, <3>1
    <3>4. QED
      BY <3>2, <3>3
  <2>3. QED
    BY <2>1, <2>2
<1>3. Append(kept, spawned + 1) = <<spawned + 1>>
  <2> HIDE DEF popped, kept
  <2>1. QED
    BY <1>2, AppendToEmpty
<1>4. /\ spawned + 1 \in Tasks
      /\ spawned' = spawned + 1
      /\ last' = [last EXCEPT ![spawned + 1] = popped]
      /\ queue' = Append(kept, spawned + 1)
      /\ status' = [status EXCEPT
                      ![spawned + 1] = IF popped = None THEN "running" ELSE "waiting"]
  BY DEF Spawn
<1> HIDE DEF popped, kept
<1>5. queue' = <<spawned + 1>>
  BY <1>3, <1>4
<1>6. status' = [status EXCEPT
                   ![spawned + 1] = IF spawned = 0 THEN "running" ELSE "waiting"]
  BY <1>2, <1>4 DEF None
<1>7. QED
  BY <1>2, <1>4, <1>5, <1>6

LEMMA QueueInvInit == QueueInit => QueueInv
BY QueueAssumption
DEF QueueInit, QueueInv, QueueTypeOK, LatestQueued, LinkedInOrder,
    BegunBehindSettled, Tasks, None, Status

LEMMA SpawnInv == QueueInv /\ Spawn => QueueInv'
<1> SUFFICES ASSUME QueueInv, Spawn PROVE QueueInv'
  OBVIOUS
<1> DEFINE n == spawned + 1
<1>1. /\ n \in Tasks
      /\ spawned' = n
      /\ queue' = <<n>>
      /\ last' = [last EXCEPT ![n] = spawned]
      /\ status' = [status EXCEPT
                      ![n] = IF spawned = 0 THEN "running" ELSE "waiting"]
  BY SpawnEffect
<1>2. spawned \in Nat /\ n \in Nat /\ Calls \in Nat /\ n <= Calls
  BY <1>1, QueueAssumption DEF QueueInv, QueueTypeOK, Tasks
<1>3. status[n] = "idle"
  BY <1>1, <1>2 DEF QueueInv, LinkedInOrder
<1>4. QueueTypeOK'
  <2>1. spawned \in Tasks \cup {None}
    BY <1>2 DEF Tasks, None
  <2>2. last' \in [Tasks -> Tasks \cup {None}]
    BY <1>1, <2>1 DEF QueueInv, QueueTypeOK
  <2>3. status' \in [Tasks -> Status]
    BY <1>1 DEF QueueInv, QueueTypeOK, Status
  <2>4. queue' \in Seq(Tasks) /\ Len(queue') <= 1
    BY <1>1
  <2>5. spawned' \in 0 .. Calls
    BY <1>1, <1>2
  <2>6. QED
    BY <2>2, <2>3, <2>4, <2>5 DEF QueueTypeOK
<1>5. LatestQueued'
  BY <1>1, <1>2 DEF LatestQueued
<1>6. LinkedInOrder'
  <2> SUFFICES ASSUME NEW t \in Tasks
               PROVE  IF t <= spawned' THEN status'[t] # "idle" /\ last'[t] = t - 1
                                       ELSE status'[t] = "idle"
    BY DEF LinkedInOrder
  <2>1. CASE t = n
    BY <1>1, <1>2, <2>1 DEF QueueInv, QueueTypeOK
  <2>2. CASE t # n
    BY <1>1, <1>2, <2>2 DEF QueueInv, QueueTypeOK, LinkedInOrder, Tasks
  <2>3. QED
    BY <2>1, <2>2
<1>7. BegunBehindSettled'
  <2> SUFFICES ASSUME NEW s \in Tasks, NEW t \in Tasks, s < t,
                      status'[t] \in {"running", "done"}
               PROVE  \/ status'[s] \in {"done", "abandoned"}
                      \/ \E k \in (s + 1) .. (t - 1) : status'[k] = "abandoned"
    BY DEF BegunBehindSettled, Settled
  <2>1. t # n
    BY <1>1, <1>2 DEF QueueInv, QueueTypeOK, Tasks
  <2>2. status[t] \in {"running", "done"}
    BY <1>1, <2>1 DEF QueueInv, QueueTypeOK
  <2>3. \A k \in Tasks : status[k] # "idle" => status'[k] = status[k]
    BY <1>1, <1>3 DEF QueueInv, QueueTypeOK
  <2>4. \A k \in (s + 1) .. (t - 1) : k \in Tasks
    BY <1>2 DEF Tasks
  <2>5. QED
    BY <2>2, <2>3, <2>4 DEF QueueInv, BegunBehindSettled, Settled
<1>8. QED
  BY <1>4, <1>5, <1>6, <1>7 DEF QueueInv

(* Start, Finish and Abandon move one task forward; they keep everything but
   BegunBehindSettled by leaving the queue and the links alone. *)
LEMMA StartInv == ASSUME QueueInv, NEW t \in Tasks, Start(t) PROVE QueueInv'
<1>1. /\ status[t] = "waiting"
      /\ status' = [status EXCEPT ![t] = "running"]
      /\ UNCHANGED <<spawned, queue, last>>
  BY DEF Start
<1>2. QueueTypeOK' /\ LatestQueued' /\ LinkedInOrder'
  BY <1>1 DEF QueueInv, QueueTypeOK, LatestQueued, LinkedInOrder, Status
<1>3. t <= spawned /\ last[t] = t - 1
  BY <1>1 DEF QueueInv, LinkedInOrder
<1>4. Settled(t - 1)
  BY <1>3 DEF Start
<1>5. BegunBehindSettled'
  <2> SUFFICES ASSUME NEW s \in Tasks, NEW u \in Tasks, s < u,
                      status'[u] \in {"running", "done"}
               PROVE  \/ status'[s] \in {"done", "abandoned"}
                      \/ \E k \in (s + 1) .. (u - 1) : status'[k] = "abandoned"
    BY DEF BegunBehindSettled, Settled
  <2>1. \A k \in Tasks : k # t => status'[k] = status[k]
    BY <1>1 DEF QueueInv, QueueTypeOK
  <2>2. \A k \in (s + 1) .. (u - 1) : k \in Tasks
    BY QueueAssumption DEF Tasks
  <2>3. CASE u # t
    <3>1. Settled(s) \/ \E k \in (s + 1) .. (u - 1) : status[k] = "abandoned"
      BY <2>1, <2>3 DEF QueueInv, BegunBehindSettled
    <3>2. QED
      BY <1>1, <2>1, <2>2, <3>1 DEF Settled
  <2>4. CASE u = t /\ s = t - 1
    BY <1>1, <1>4, <2>1, <2>4 DEF Settled, Tasks
  <2>5. CASE u = t /\ s # t - 1
    <3>1. t - 1 \in Tasks /\ s < t - 1
      BY <2>5, QueueAssumption DEF Tasks
    <3>2. CASE status[t - 1] = "abandoned"
      BY <2>1, <2>5, <3>1, <3>2 DEF Tasks
    <3>3. CASE status[t - 1] = "done"
      <4>1. Settled(s) \/ \E k \in (s + 1) .. ((t - 1) - 1) : status[k] = "abandoned"
        BY <3>1, <3>3 DEF QueueInv, BegunBehindSettled
      <4>2. \A k \in (s + 1) .. ((t - 1) - 1) : k \in (s + 1) .. (t - 1) /\ k \in Tasks /\ k # t
        BY <2>2, <2>5 DEF Tasks
      <4>3. s # t
        BY <3>1 DEF Tasks
      <4>4. QED
        BY <2>1, <2>5, <4>1, <4>2, <4>3 DEF Settled
    <3>4. QED
      BY <1>4, <3>2, <3>3 DEF Settled
  <2>6. QED
    BY <2>3, <2>4, <2>5
<1>6. QED
  BY <1>2, <1>5 DEF QueueInv

LEMMA SettleInv ==
  ASSUME QueueInv, NEW t \in Tasks, Finish(t) \/ Abandon(t) PROVE QueueInv'
<1>1. /\ \/ status[t] = "running" /\ status' = [status EXCEPT ![t] = "done"]
         \/ status[t] = "waiting" /\ status' = [status EXCEPT ![t] = "abandoned"]
      /\ UNCHANGED <<spawned, queue, last>>
  BY DEF Finish, Abandon
<1>2. QueueTypeOK' /\ LatestQueued' /\ LinkedInOrder'
  BY <1>1 DEF QueueInv, QueueTypeOK, LatestQueued, LinkedInOrder, Status
<1>3. \A u \in Tasks : status'[u] \in {"running", "done"} =>
                         status[u] \in {"running", "done"}
  BY <1>1 DEF QueueInv, QueueTypeOK
<1>4. \A u \in Tasks : /\ Settled(u) => status'[u] \in {"done", "abandoned"}
                       /\ status[u] = "abandoned" => status'[u] = "abandoned"
  BY <1>1 DEF QueueInv, QueueTypeOK, Settled
<1>5. BegunBehindSettled'
  <2> SUFFICES ASSUME NEW s \in Tasks, NEW u \in Tasks, s < u,
                      status'[u] \in {"running", "done"}
               PROVE  \/ status'[s] \in {"done", "abandoned"}
                      \/ \E k \in (s + 1) .. (u - 1) : status'[k] = "abandoned"
    BY DEF BegunBehindSettled, Settled
  <2>1. \A k \in (s + 1) .. (u - 1) : k \in Tasks
    BY QueueAssumption DEF Tasks
  <2>2. Settled(s) \/ \E k \in (s + 1) .. (u - 1) : status[k] = "abandoned"
    BY <1>3 DEF QueueInv, BegunBehindSettled
  <2>3. QED
    BY <1>4, <2>1, <2>2
<1>6. QED
  BY <1>2, <1>5 DEF QueueInv

LEMMA QueueInvNext == QueueInv /\ [QueueNext]_queueVars => QueueInv'
<1>1. QueueInv /\ UNCHANGED queueVars => QueueInv'
  BY DEF QueueInv, QueueTypeOK, LatestQueued, LinkedInOrder,
         BegunBehindSettled, Settled, queueVars
<1>2. QED
  BY <1>1, SpawnInv, StartInv, SettleInv DEF QueueNext

THEOREM QueueInvariant == QueueSpec => []QueueInv
BY QueueInvInit, QueueInvNext, PTL DEF QueueSpec

(* The queue is typed, and never holds more than one invocation. *)
THEOREM QueueTypeCorrect == QueueSpec => []QueueTypeOK
<1>1. QueueInv => QueueTypeOK
  BY DEF QueueInv
<1>2. QED
  BY <1>1, QueueInvariant, PTL

(* Work overlaps only around a task that was aborted while it waited. *)
THEOREM SerialWork == QueueSpec => []SerialUnlessAbandoned
<1>1. QueueInv => SerialUnlessAbandoned
  BY DEF QueueInv, BegunBehindSettled, SerialUnlessAbandoned, Running, Settled
<1>2. QED
  BY <1>1, QueueInvariant, PTL

(* With nothing aborted, the queue is a mutex. *)
THEOREM MutualExclusion == QueueSpec => []AtMostOneRuns
<1>1. SerialUnlessAbandoned => AtMostOneRuns
  <2> SUFFICES ASSUME SerialUnlessAbandoned,
                      \A t \in Tasks : status[t] # "abandoned",
                      NEW s \in Tasks, NEW t \in Tasks, Running(s), Running(t),
                      s < t
               PROVE  FALSE
    BY QueueAssumption DEF AtMostOneRuns, Tasks
  <2>1. PICK k \in (s + 1) .. (t - 1) : status[k] = "abandoned"
    BY DEF SerialUnlessAbandoned
  <2>2. k \in Tasks
    BY QueueAssumption DEF Tasks
  <2>3. QED
    BY <2>1, <2>2
<1>2. QED
  BY <1>1, SerialWork, PTL

(* Work begins in the order of the spawn calls. *)
THEOREM CallOrder == QueueSpec => BegunInCallOrder
<1>1. QueueInv /\ QueueInv' /\ [QueueNext]_queueVars =>
        [\A t \in Tasks : ~Running(t) /\ Running(t)' =>
           \A s \in 1 .. (t - 1) :
             \/ Settled(s)
             \/ \E k \in (s + 1) .. (t - 1) : status[k] = "abandoned"]_queueVars
  <2> SUFFICES ASSUME QueueInv, QueueInv', QueueNext,
                      NEW t \in Tasks, ~Running(t), Running(t)',
                      NEW s \in 1 .. (t - 1)
               PROVE  \/ Settled(s)
                      \/ \E k \in (s + 1) .. (t - 1) : status[k] = "abandoned"
    OBVIOUS
  <2>1. s \in Tasks /\ s < t
    BY QueueAssumption DEF Tasks
  <2>2. \/ status'[s] \in {"done", "abandoned"}
        \/ \E k \in (s + 1) .. (t - 1) : status'[k] = "abandoned"
    BY <2>1 DEF QueueInv, BegunBehindSettled, Running, Settled
  <2>3. \A k \in Tasks : k < t => status'[k] = status[k]
    <3>1. CASE Spawn
      BY <3>1, SpawnEffect DEF QueueInv, QueueTypeOK, Running, Tasks
    <3>2. CASE \E u \in Tasks : Start(u) \/ Finish(u) \/ Abandon(u)
      BY <3>2 DEF Start, Finish, Abandon, QueueInv, QueueTypeOK, Running, Tasks
    <3>3. QED
      BY <3>1, <3>2 DEF QueueNext
  <2>4. \A k \in (s + 1) .. (t - 1) : k \in Tasks /\ k < t
    BY QueueAssumption DEF Tasks
  <2>5. QED
    BY <2>1, <2>2, <2>3, <2>4 DEF Settled
<1>2. QED
  BY <1>1, QueueInvariant, PTL DEF QueueSpec, BegunInCallOrder

(* A queue nobody aborts tasks of implements the serial executor: spawn hands
   in a job (and begins it if the queue was never used), each later step
   begins the oldest job or ends the one being performed. *)
THEOREM Refinement == Abortable = {} => (QueueSpec => ImplementsSerial)
<1> SUFFICES ASSUME Abortable = {} PROVE QueueSpec => ImplementsSerial
  OBVIOUS
<1> DEFINE NoneAbandoned == \A t \in Tasks : status[t] # "abandoned"
<1>1. QueueSpec => []NoneAbandoned
  <2>1. QueueInit => NoneAbandoned
    BY DEF QueueInit
  <2>2. QueueInv /\ NoneAbandoned /\ [QueueNext]_queueVars => NoneAbandoned'
    <3> SUFFICES ASSUME QueueInv, NoneAbandoned, [QueueNext]_queueVars
                 PROVE  NoneAbandoned'
      OBVIOUS
    <3>1. CASE Spawn
      BY <3>1, SpawnEffect DEF QueueInv, QueueTypeOK
    <3>2. CASE \E t \in Tasks : Start(t) \/ Finish(t) \/ Abandon(t)
      BY <3>2 DEF Start, Finish, Abandon, QueueInv, QueueTypeOK
    <3>3. CASE UNCHANGED queueVars
      BY <3>3 DEF queueVars
    <3>4. QED
      BY <3>1, <3>2, <3>3 DEF QueueNext
  <2>3. QED
    BY <2>1, <2>2, QueueInvariant, PTL DEF QueueSpec
<1>2. QueueInit => Serial!SerialInit
  BY DEF QueueInit, Serial!SerialInit, Begun, Active, Running
<1>3. QueueInv /\ QueueInv' /\ NoneAbandoned /\ [QueueNext]_queueVars
        => [Serial!SerialNext]_(Serial!serialVars)
  <2> SUFFICES ASSUME QueueInv, QueueInv', NoneAbandoned, [QueueNext]_queueVars
               PROVE  [Serial!SerialNext]_(Serial!serialVars)
    OBVIOUS
  <2> USE DEF Begun, Active, Running
  <2>0. /\ status \in [Tasks -> Status]
        /\ \A t \in Tasks : t \in Int
        /\ \A s, t \in Tasks : s < t /\ t \in Begun => status[s] = "done"
    <3>1. \A s, t \in Tasks : s < t /\ t \in Begun => Settled(s)
      BY QueueAssumption DEF QueueInv, BegunBehindSettled, Tasks
    <3>2. QED
      BY <3>1, QueueAssumption DEF QueueInv, QueueTypeOK, Settled, Tasks
  <2>1. CASE Spawn
    <3>1. /\ spawned + 1 \in Tasks
          /\ spawned' = spawned + 1
          /\ status' = [status EXCEPT
               ![spawned + 1] = IF spawned = 0 THEN "running" ELSE "waiting"]
          /\ status[spawned + 1] = "idle"
      BY <2>1, SpawnEffect, QueueAssumption
      DEF QueueInv, LinkedInOrder, QueueTypeOK, Tasks
    <3>2. CASE spawned = 0
      <4>1. \A t \in Tasks : status[t] = "idle"
        BY <3>2 DEF QueueInv, LinkedInOrder, Tasks
      <4>2. Active = {} /\ 1 .. spawned \subseteq Begun
        BY <3>2, <4>1
      <4>3. Begun' = Begun \cup {spawned + 1} /\ Active' = {spawned + 1}
        BY <2>0, <3>1, <3>2, <4>1
      <4>4. QED
        BY <3>1, <4>2, <4>3 DEF Serial!SerialNext, Serial!SubmitAndBegin
    <3>3. CASE spawned # 0
      <4>1. Begun' = Begun /\ Active' = Active
        BY <2>0, <3>1, <3>3
      <4>2. QED
        BY <3>1, <4>1 DEF Serial!SerialNext, Serial!Submit
    <3>4. QED
      BY <3>2, <3>3
  <2>2. ASSUME NEW t \in Tasks, Start(t)
        PROVE  [Serial!SerialNext]_(Serial!serialVars)
    <3>1. /\ status[t] = "waiting"
          /\ status' = [status EXCEPT ![t] = "running"]
          /\ spawned' = spawned
      BY <2>2 DEF Start
    <3>2. t \in 1 .. spawned
      BY <3>1, QueueAssumption DEF QueueInv, LinkedInOrder, QueueTypeOK, Tasks
    <3>3. t \in Begun' /\ Begun' = Begun \cup {t} /\ t \notin Begun
      BY <2>0, <3>1
    <3>4. \A s \in Tasks : s < t => status[s] = "done"
      <4>1. \A s \in Tasks : s < t => Settled(s)'
        BY <3>3, <2>2, QueueAssumption, <2>0
        DEF QueueInv, BegunBehindSettled, Tasks, NoneAbandoned, Settled, Start
      <4>2. QED
        BY <2>0, <3>1, <4>1 DEF Settled
    <3>5. 1 .. (t - 1) \subseteq Begun
      BY <3>2, <3>4, QueueAssumption DEF Tasks, QueueInv, QueueTypeOK
    <3>6. Active = {}
      <4> SUFFICES ASSUME NEW u \in Tasks, status[u] = "running" PROVE FALSE
        OBVIOUS
      <4>1. ~(u < t) /\ u # t
        BY <3>1, <3>4
      <4>2. t < u
        BY <4>1, <2>0
      <4>3. QED
        BY <4>2, <2>0, <3>1
    <3>7. Active' = {t}
      BY <2>0, <3>1, <3>6
    <3>8. QED
      BY <3>1, <3>2, <3>3, <3>5, <3>6, <3>7
      DEF Serial!SerialNext, Serial!Begin
  <2>3. ASSUME NEW t \in Tasks, Finish(t)
        PROVE  [Serial!SerialNext]_(Serial!serialVars)
    <3>1. /\ status[t] = "running"
          /\ status' = [status EXCEPT ![t] = "done"]
          /\ spawned' = spawned
      BY <2>3 DEF Finish
    <3>2. Begun' = Begun
      BY <2>0, <3>1
    <3>3. Active' = {}
      <4> SUFFICES ASSUME NEW u \in Tasks, status'[u] = "running" PROVE FALSE
        OBVIOUS
      <4>1. u # t /\ status[u] = "running"
        BY <2>0, <3>1
      <4>2. u < t \/ t < u
        BY <4>1, <2>0
      <4>3. QED
        BY <4>1, <4>2, <2>0, <3>1
    <3>4. QED
      BY <3>1, <3>2, <3>3 DEF Serial!SerialNext, Serial!End
  <2>4. ASSUME NEW t \in Tasks, Abandon(t)
        PROVE  [Serial!SerialNext]_(Serial!serialVars)
    BY <2>4 DEF Abandon
  <2>5. CASE UNCHANGED queueVars
    BY <2>5 DEF queueVars, Serial!serialVars
  <2>6. QED
    BY <2>1, <2>2, <2>3, <2>4, <2>5 DEF QueueNext
<1>4. QED
  BY <1>1, <1>2, <1>3, QueueInvariant, PTL
  DEF QueueSpec, ImplementsSerial, Serial!SerialSpec

-----------------------------------------------------------------------------
(* The tree: the types of what its argument is about. *)
TreeTypes ==
  /\ open \in BOOLEAN
  /\ kind \in [Tasks -> Kinds]
  /\ stage \in [Tasks -> Stages]
  /\ txs \in Seq(Tasks)
  /\ txn \in [Tasks -> 0 .. MaxEdits]
  /\ fate \in [Tasks -> Fates]
  /\ entries \in Seq(Edit)
  /\ result \in [Tasks -> Results]

(* A call has a kind from the moment it is queued, and an answer when it is
   done. *)
Numbered == \A t \in Tasks :
  /\ kind[t] = "none" <=> status[t] = "idle"
  /\ status[t] = "idle" => result[t] = "pending"
  /\ status[t] = "done" => result[t] # "pending"

(* Edits are made by the job of a write, once it has read the root. *)
EditedByWork == \A t \in Tasks :
  /\ stage[t] = "begin" => txn[t] = 0
  /\ stage[t] # "begin" => status[t] \in {"running", "done"}

UnderWay(t) == fate[t] \in {"open", "doomed"}
Over(t) == fate[t] \in {"stored", "lost"}

(* A transaction is begun with the work of a call and ends when nothing more is
   asked of it. *)
Fated == \A t \in Tasks :
  /\ fate[t] = "none" <=>
       status[t] \in {"idle", "waiting", "abandoned"} \/ kind[t] = "close"
  /\ Over(t) => Settled(t) \/ stage[t] = "committing"

(* The transactions under way are listed once, and those of ordered calls are
   listed, and end, in the order of the calls. *)
Listed == \A t \in Tasks : UnderWay(t) <=> \E i \in DOMAIN txs : txs[i] = t

TxsOrder ==
  /\ \A i, j \in DOMAIN txs : i < j =>
       txs[i] # txs[j] /\ (txs[j] < txs[i] => ~Ordered(txs[j], txs[i]))
  /\ \A s, t \in Tasks : s < t /\ UnderWay(s) /\ Over(t) => ~Ordered(s, t)

(* What is in the store was put there by transactions that were stored. *)
EntriesOfStored == \A i \in DOMAIN entries : fate[entries[i].task] = "stored"

(* Behind a close() nothing but other calls of close() is queued. *)
ClosedOff == \A s \in Tasks : kind[s] = "close" =>
  /\ ~open
  /\ \A t \in Tasks : t > s => kind[t] \in {"none", "close"}

TreeInv ==
  /\ QueueInv /\ TreeTypes /\ Numbered /\ EditedByWork /\ Fated
  /\ Listed /\ TxsOrder /\ EntriesOfStored /\ ClosedOff /\ StoredAsTold

-----------------------------------------------------------------------------
(* The queue of the tree is the queue of TaskQueue. *)
LEMMA QueueStep == [Next]_vars => [QueueNext]_queueVars
<1> SUFFICES ASSUME [Next]_vars PROVE [QueueNext]_queueVars
  OBVIOUS
<1>1. CASE Write \/ Clear \/ Close
  BY <1>1 DEF Write, Clear, Close, Enqueue, QueueNext
<1>2. ASSUME NEW t \in Tasks, Step(t) \/ Abort(t) \/ Database(t)
      PROVE  [QueueNext]_queueVars
  <2>1. Start(t) \/ Finish(t) \/ Abandon(t) \/ UNCHANGED queueVars
    BY <1>2 DEF Step, Abort, Turn, ReadRoot, RootMissing, EditEntry, JobThrows,
                RequestFails, JobReturns, WriteReturns, ClearReturns, Closed, Return,
                Database, WriteCompletes, ClearCompletes, Aborts, Ends
  <2> QED
    BY <2>1 DEF QueueNext
<1>3. CASE UNCHANGED vars
  BY <1>3 DEF vars
<1> QED
  BY <1>1, <1>2, <1>3 DEF Next

(* The calls of a tree are the tasks of one queue, so that what is proved of the
   queue holds of the tree. *)
THEOREM TreeOnQueue == Spec => QueueSpec
<1>1. Init => QueueInit
  BY DEF Init
<1> QED
  BY <1>1, QueueStep, PTL DEF Spec, QueueSpec

-----------------------------------------------------------------------------
(* Work on a tree overlaps only around a call that was aborted while it waited. *)
THEOREM TreeSerial == Spec => []SerialUnlessAbandoned
BY TreeOnQueue, SerialWork, PTL

(* The work of a tree's calls begins in the order of the calls. *)
THEOREM TreeCallOrder == Spec => BegunInCallOrder
BY TreeOnQueue, CallOrder, PTL

-----------------------------------------------------------------------------
(* The edits of a call that are in the store. *)
Present(t) == {entries[i].edit : i \in {j \in DOMAIN entries : entries[j].task = t}}
Cleared == {c \in Tasks : kind[c] = "clear" /\ fate[c] = "stored"}

(* What StoredAsTold says of one write. *)
Kept(t) ==
  /\ Present(t) \in {{}, 1 .. txn[t]}
  /\ result[t] = "ok" => fate[t] = "stored"
  /\ Present(t) # {} =>
       fate[t] = "stored" /\ \A c \in Cleared : c > t => ~Ordered(t, c)
  /\ fate[t] = "stored" /\ Present(t) # 1 .. txn[t] =>
       \E c \in Cleared : c > t \/ ~Ordered(c, t)

LEMMA KeptForm == StoredAsTold <=> \A t \in Tasks : kind[t] = "write" => Kept(t)
BY DEF StoredAsTold, Kept, Present, Cleared

LEMMA EntryTask == TreeTypes => \A i \in DOMAIN entries : entries[i].task \in Tasks
<1> SUFFICES ASSUME TreeTypes, NEW i \in DOMAIN entries PROVE entries[i].task \in Tasks
  OBVIOUS
<1>1. entries \in Seq(Edit)
  BY DEF TreeTypes
<1>2. entries[i] \in Edit
  BY <1>1
<1> QED
  BY <1>2 DEF Edit

LEMMA NothingEarly ==
  ASSUME EntriesOfStored, NEW t \in Tasks, fate[t] # "stored"
  PROVE  Present(t) = {}
BY DEF EntriesOfStored, Present

(* Orders are lost by abandoning calls, and never gained. *)
LEMMA OrderedLess ==
  ASSUME NEW s \in Tasks \cup {0}, NEW t \in Tasks,
         \A u \in Tasks : status[u] = "abandoned" => status'[u] = "abandoned"
  PROVE  Ordered(s, t)' => Ordered(s, t)
<1>1. \A k \in (s + 1) .. (t - 1) : k \in Tasks
  BY QueueAssumption DEF Tasks
<1> QED
  BY <1>1 DEF Ordered

(* What a step that ends no transaction does to the entries: nothing, and the
   writes that are stored stay as they are. *)
LEMMA EntriesKept ==
  ASSUME TreeInv, entries' = entries,
         \A u \in Tasks :
           /\ status[u] = "abandoned" => status'[u] = "abandoned"
           /\ fate'[u] = "stored" <=> fate[u] = "stored"
           /\ fate[u] = "stored" => kind'[u] = kind[u] /\ txn'[u] = txn[u]
           /\ kind'[u] = "write" /\ result'[u] = "ok" => fate[u] = "stored"
  PROVE  EntriesOfStored' /\ StoredAsTold'
<1>1. EntriesOfStored'
  BY EntryTask DEF TreeInv, EntriesOfStored
<1>2. SUFFICES ASSUME NEW t \in Tasks, kind'[t] = "write" PROVE Kept(t)'
  BY <1>1 DEF StoredAsTold, Kept, Present, Cleared
<1>3. Present(t)' = Present(t) /\ Cleared' = Cleared /\ Cleared \subseteq Tasks
  BY DEF Present, Cleared
<1>4. CASE fate[t] # "stored"
  <2>1. Present(t) = {}
    BY <1>4, NothingEarly DEF TreeInv
  <2> QED
    BY <1>2, <1>3, <1>4, <2>1 DEF Kept
<1>5. CASE fate[t] = "stored"
  <2>1. Kept(t) /\ txn'[t] = txn[t] /\ fate'[t] = "stored"
    BY <1>2, <1>5, KeptForm DEF TreeInv
  <2>2. \A c \in Tasks : /\ Ordered(t, c)' => Ordered(t, c)
                         /\ Ordered(c, t)' => Ordered(c, t)
    BY OrderedLess
  <2> QED
    BY <1>3, <2>1, <2>2 DEF Kept
<1> QED
  BY <1>4, <1>5

(* What a step that begins and ends no transaction does to the list of them. *)
LEMMA TxsKept ==
  ASSUME TreeInv, txs' = txs,
         \A u \in Tasks :
           /\ status[u] = "abandoned" => status'[u] = "abandoned"
           /\ UnderWay(u)' <=> UnderWay(u)
           /\ Over(u)' <=> Over(u)
  PROVE  Listed' /\ TxsOrder'
<1>1. \A s, t \in Tasks : Ordered(s, t)' => Ordered(s, t)
  BY OrderedLess
<1>2. \A i \in DOMAIN txs : txs[i] \in Tasks
  BY DEF TreeInv, TreeTypes
<1>3. Listed'
  BY DEF TreeInv, Listed
<1>4. TxsOrder'
  BY <1>1, <1>2 DEF TreeInv, TxsOrder
<1> QED
  BY <1>3, <1>4

(* A transaction is begun: it is the last of the list, and the calls behind its
   own that have begun one before are not ordered with it. *)
LEMMA TxsBegun ==
  ASSUME TreeInv, NEW t \in Tasks, fate[t] = "none",
         txs' = Append(txs, t), fate' = [fate EXCEPT ![t] = "open"],
         \A u \in Tasks : status[u] = "abandoned" => status'[u] = "abandoned",
         \A u \in Tasks : t < u /\ fate[u] # "none" => ~Ordered(t, u)'
  PROVE  TreeTypes' => Listed' /\ TxsOrder'
<1>1. /\ txs \in Seq(Tasks) /\ txs' \in Seq(Tasks) /\ Len(txs') = Len(txs) + 1
      /\ DOMAIN txs = 1 .. Len(txs) /\ DOMAIN txs' = 1 .. (Len(txs) + 1)
      /\ \A i \in DOMAIN txs : txs'[i] = txs[i] /\ txs[i] \in Tasks
      /\ txs'[Len(txs) + 1] = t
  BY DEF TreeInv, TreeTypes
<1>2. /\ UnderWay(t)' /\ ~UnderWay(t) /\ ~Over(t)' /\ ~Over(t)
      /\ \A u \in Tasks : u # t => fate'[u] = fate[u]
  BY DEF TreeInv, TreeTypes, UnderWay, Over
<1>3. \A u \in Tasks : u # t => (UnderWay(u)' <=> UnderWay(u)) /\ (Over(u)' <=> Over(u))
  BY <1>2 DEF UnderWay, Over
<1>4. \A s, u \in Tasks : Ordered(s, u)' => Ordered(s, u)
  BY OrderedLess
<1>5. \A i \in DOMAIN txs : UnderWay(txs[i]) /\ txs[i] # t /\ fate[txs[i]] # "none"
  <2> TAKE i \in DOMAIN txs
  <2>1. UnderWay(txs[i])
    BY <1>1 DEF TreeInv, Listed
  <2> QED
    BY <1>2, <2>1 DEF UnderWay
<1>6. Listed'
  <2> SUFFICES ASSUME NEW u \in Tasks
               PROVE  UnderWay(u)' <=> \E i \in DOMAIN txs' : txs'[i] = u
    BY DEF Listed
  <2>1. CASE u = t
    <3>1. Len(txs) + 1 \in DOMAIN txs'
      BY <1>1
    <3> QED
      BY <1>1, <1>2, <2>1, <3>1
  <2>2. CASE u # t
    <3>1. UnderWay(u)' <=> \E i \in DOMAIN txs : txs[i] = u
      BY <1>3, <2>2 DEF TreeInv, Listed
    <3>2. \A i \in DOMAIN txs' : txs'[i] = u => i \in DOMAIN txs /\ txs[i] = u
      BY <1>1, <2>2
    <3>3. \A i \in DOMAIN txs : i \in DOMAIN txs'
      BY <1>1
    <3> QED
      BY <1>1, <3>1, <3>2, <3>3
  <2> QED
    BY <2>1, <2>2
<1>7. ASSUME NEW i \in DOMAIN txs', NEW j \in DOMAIN txs', i < j
      PROVE  (txs[i] # txs[j] /\ (txs[j] < txs[i] => ~Ordered(txs[j], txs[i])))'
  <2>1. i \in DOMAIN txs
    BY <1>1, <1>7
  <2>2. CASE j \in DOMAIN txs
    <3>1. txs[i] # txs[j] /\ (txs[j] < txs[i] => ~Ordered(txs[j], txs[i]))
      BY <1>7, <2>1, <2>2 DEF TreeInv, TxsOrder
    <3> QED
      BY <1>1, <1>4, <2>1, <2>2, <3>1
  <2>3. CASE j = Len(txs) + 1
    BY <1>1, <1>5, <2>1, <2>3
  <2> QED
    BY <1>1, <2>2, <2>3
<1>8. ASSUME NEW s \in Tasks, NEW u \in Tasks, s < u, UnderWay(s)', Over(u)'
      PROVE  ~Ordered(s, u)'
  <2>1. u # t /\ Over(u) /\ fate[u] # "none"
    BY <1>2, <1>3, <1>8 DEF Over
  <2>2. CASE s = t
    BY <1>8, <2>1, <2>2
  <2>3. CASE s # t
    <3>1. UnderWay(s)
      BY <1>3, <1>8, <2>3
    <3>2. ~Ordered(s, u)
      BY <1>8, <2>1, <3>1 DEF TreeInv, TxsOrder
    <3> QED
      BY <1>4, <3>2
  <2> QED
    BY <2>2, <2>3
<1>9. TxsOrder'
  BY <1>7, <1>8 DEF TxsOrder
<1> QED
  BY <1>6, <1>9

(* The oldest transaction ends: those of earlier calls that are still under way
   are listed behind it, and therefore not ordered with its call. *)
LEMMA TxsEnded ==
  ASSUME TreeInv, NEW t \in Tasks, NEW outcome \in {"stored", "lost"}, Ends(t, outcome)
  PROVE  /\ txs' \in Seq(Tasks) /\ fate' \in [Tasks -> Fates]
         /\ UnderWay(t) /\ Over(t)'
         /\ \A u \in Tasks : u # t => fate'[u] = fate[u]
         /\ \A u \in Tasks : UnderWay(u)' => UnderWay(u) /\ u # t
         /\ \A u \in Tasks : u < t /\ UnderWay(u)' => ~Ordered(u, t)
         /\ Listed' /\ TxsOrder'
<1>1. /\ txs \in Seq(Tasks) /\ txs # <<>> /\ txs[1] = t /\ txs' = Tail(txs)
      /\ fate' = [fate EXCEPT ![t] = outcome] /\ status' = status
  BY DEF TreeInv, TreeTypes, Ends, Served, queueVars
<1>2. /\ txs' \in Seq(Tasks)
      /\ DOMAIN txs = 1 .. Len(txs) /\ DOMAIN txs' = 1 .. (Len(txs) - 1)
      /\ Len(txs) \in Nat \ {0} /\ 1 \in DOMAIN txs
      /\ \A i \in DOMAIN txs' : i + 1 \in DOMAIN txs /\ txs'[i] = txs[i + 1]
  BY <1>1
<1>3. UnderWay(t)
  BY <1>1, <1>2 DEF TreeInv, Listed
<1>4. /\ fate' \in [Tasks -> Fates] /\ fate'[t] = outcome
      /\ \A u \in Tasks : u # t => fate'[u] = fate[u]
  BY <1>1 DEF TreeInv, TreeTypes, Fates
<1>5. Over(t)' /\ ~UnderWay(t)'
  BY <1>4 DEF Over, UnderWay
<1>6. \A u \in Tasks : u # t => (UnderWay(u)' <=> UnderWay(u)) /\ (Over(u)' <=> Over(u))
  BY <1>4 DEF Over, UnderWay
<1>7. \A i, j \in DOMAIN txs : i < j =>
        txs[i] # txs[j] /\ (txs[j] < txs[i] => ~Ordered(txs[j], txs[i]))
  BY DEF TreeInv, TxsOrder
<1>8. \A s, u \in Tasks : Ordered(s, u)' <=> Ordered(s, u)
  BY <1>1 DEF Ordered
<1>9. ASSUME NEW u \in Tasks, u # t, UnderWay(u)
      PROVE  \E i \in DOMAIN txs : 1 < i /\ txs[i] = u
  <2>1. PICK i \in DOMAIN txs : txs[i] = u
    BY <1>9 DEF TreeInv, Listed
  <2> QED
    BY <1>1, <1>2, <1>9, <2>1
<1>10. Listed'
  <2> SUFFICES ASSUME NEW u \in Tasks
               PROVE  UnderWay(u)' <=> \E i \in DOMAIN txs' : txs'[i] = u
    BY DEF Listed
  <2>1. CASE u = t
    <3>1. \A i \in DOMAIN txs' : txs[1] # txs[i + 1]
      BY <1>2, <1>7
    <3> QED
      BY <1>1, <1>2, <1>5, <2>1, <3>1
  <2>2. CASE u # t
    <3>1. ASSUME UnderWay(u) PROVE \E i \in DOMAIN txs' : txs'[i] = u
      <4>1. PICK i \in DOMAIN txs : 1 < i /\ txs[i] = u
        BY <1>9, <2>2, <3>1
      <4>2. i - 1 \in DOMAIN txs' /\ (i - 1) + 1 = i
        BY <1>2, <4>1
      <4> QED
        BY <1>2, <4>1, <4>2
    <3>2. ASSUME NEW i \in DOMAIN txs', txs'[i] = u PROVE UnderWay(u)
      BY <1>2, <3>2 DEF TreeInv, Listed
    <3> QED
      BY <1>6, <2>2, <3>1, <3>2
  <2> QED
    BY <2>1, <2>2
<1>11. ASSUME NEW u \in Tasks, u < t, UnderWay(u)' PROVE ~Ordered(u, t)
  <2>1. u # t /\ UnderWay(u)
    BY <1>5, <1>6, <1>11
  <2>2. PICK i \in DOMAIN txs : 1 < i /\ txs[i] = u
    BY <1>9, <2>1
  <2> QED
    BY <1>1, <1>2, <1>7, <1>11, <2>2
<1>12. TxsOrder'
  <2>1. ASSUME NEW i \in DOMAIN txs', NEW j \in DOMAIN txs', i < j
        PROVE  (txs[i] # txs[j] /\ (txs[j] < txs[i] => ~Ordered(txs[j], txs[i])))'
    <3>1. /\ i + 1 \in DOMAIN txs /\ j + 1 \in DOMAIN txs /\ i + 1 < j + 1
          /\ txs'[i] = txs[i + 1] /\ txs'[j] = txs[j + 1]
          /\ txs[i + 1] \in Tasks /\ txs[j + 1] \in Tasks
      BY <1>1, <1>2, <2>1
    <3> QED
      BY <1>1, <1>7, <3>1 DEF Ordered
  <2>2. ASSUME NEW s \in Tasks, NEW u \in Tasks, s < u, UnderWay(s)', Over(u)'
        PROVE  ~Ordered(s, u)'
    <3>1. CASE u = t
      BY <1>8, <1>11, <2>2, <3>1
    <3>2. CASE u # t
      <4>1. Over(u) /\ UnderWay(s)
        BY <1>5, <1>6, <2>2, <3>2
      <4> QED
        BY <1>8, <2>2, <4>1 DEF TreeInv, TxsOrder
    <3> QED
      BY <3>1, <3>2
  <2> QED
    BY <2>1, <2>2 DEF TxsOrder
<1> QED
  BY <1>2, <1>3, <1>4, <1>5, <1>6, <1>10, <1>11, <1>12

(* A write whose transaction is stored leaves all its edits in the store. *)
LEMMA StoredEdits ==
  ASSUME TreeInv, NEW t \in Tasks, entries' = Stored(t)
  PROVE  /\ Stored(t) \in Seq(Edit)
         /\ Present(t)' = Present(t) \cup 1 .. txn[t]
         /\ \A u \in Tasks : u # t => Present(u)' = Present(u)
         /\ \A i \in DOMAIN Stored(t) :
              \/ i \in DOMAIN entries /\ Stored(t)[i] = entries[i]
              \/ Stored(t)[i].task = t
<1> DEFINE new == [i \in 1 .. txn[t] |-> [task |-> t, edit |-> i]]
<1>1. entries \in Seq(Edit) /\ txn[t] \in 0 .. MaxEdits
  BY DEF TreeInv, TreeTypes
<1>2. new \in Seq(Edit) /\ Len(new) = txn[t]
  <2>1. \A i \in 1 .. txn[t] : [task |-> t, edit |-> i] \in Edit
    BY <1>1, EditsAssumption DEF Edit
  <2> QED
    BY <1>1, <2>1, EditsAssumption
<1>3. \A i \in 1 .. txn[t] : new[i].task = t /\ new[i].edit = i
  OBVIOUS
<1> HIDE DEF new
<1>4. Stored(t) = entries \o new
  BY DEF Stored, new
<1>5. /\ Stored(t) \in Seq(Edit)
      /\ DOMAIN Stored(t) = 1 .. (Len(entries) + txn[t])
      /\ \A i \in 1 .. Len(entries) : Stored(t)[i] = entries[i]
      /\ \A i \in 1 .. txn[t] : Stored(t)[Len(entries) + i] = new[i]
  BY <1>1, <1>2, <1>4
<1>6. \A i \in DOMAIN Stored(t) : i \in DOMAIN entries \/ i - Len(entries) \in 1 .. txn[t]
  BY <1>1, <1>5
<1>7. DOMAIN entries = 1 .. Len(entries) /\ DOMAIN entries \subseteq DOMAIN Stored(t)
  BY <1>1, <1>5
<1>8. \A i \in 1 .. txn[t] : Len(entries) + i \in DOMAIN Stored(t)
  BY <1>1, <1>5
<1>9. \A i \in DOMAIN Stored(t) :
        \/ i \in DOMAIN entries /\ Stored(t)[i] = entries[i]
        \/ /\ i - Len(entries) \in 1 .. txn[t]
           /\ Stored(t)[i].task = t /\ Stored(t)[i].edit = i - Len(entries)
  <2> TAKE i \in DOMAIN Stored(t)
  <2>1. CASE i \in DOMAIN entries
    BY <1>5, <1>7, <2>1
  <2>2. CASE i - Len(entries) \in 1 .. txn[t]
    <3>1. Stored(t)[Len(entries) + (i - Len(entries))] = new[i - Len(entries)]
      BY <1>5, <2>2
    <3>2. Len(entries) + (i - Len(entries)) = i
      BY <1>1, <1>5
    <3> QED
      BY <1>3, <2>2, <3>1, <3>2
  <2> QED
    BY <1>6, <2>1, <2>2
<1>10. Present(t)' = Present(t) \cup 1 .. txn[t]
  <2>1. \A e \in Present(t)' : e \in Present(t) \cup 1 .. txn[t]
    BY <1>9 DEF Present
  <2>2. Present(t) \subseteq Present(t)'
    BY <1>5, <1>7 DEF Present
  <2>3. \A e \in 1 .. txn[t] : e \in Present(t)'
    BY <1>3, <1>5, <1>8 DEF Present
  <2> QED
    BY <2>1, <2>2, <2>3
<1>11. ASSUME NEW u \in Tasks, u # t PROVE Present(u)' = Present(u)
  BY <1>5, <1>7, <1>9, <1>11 DEF Present
<1> QED
  BY <1>5, <1>9, <1>10, <1>11

LEMMA TreeInit == Init => TreeInv
<1> SUFFICES ASSUME Init PROVE TreeInv
  OBVIOUS
<1>1. QueueInv
  BY QueueInvInit DEF Init
<1>2. TreeTypes
  BY EditsAssumption DEF Init, TreeTypes, Kinds, Stages, Fates, Results
<1>3. Numbered /\ EditedByWork /\ ClosedOff /\ Fated
  BY DEF Init, QueueInit, Numbered, EditedByWork, ClosedOff, Fated, Over
<1>4. EntriesOfStored /\ StoredAsTold /\ Listed /\ TxsOrder
  BY DEF Init, EntriesOfStored, StoredAsTold, Listed, TxsOrder, UnderWay, Over
<1> QED
  BY <1>1, <1>2, <1>3, <1>4 DEF TreeInv

(* A call is queued: its task is the next one, and has done nothing yet. *)
LEMMA EnqueueKeeps ==
  ASSUME TreeInv, Write \/ Clear \/ Close
  PROVE  TreeInv'
<1> DEFINE n == spawned + 1
<1>1. PICK k \in {"write", "clear", "close"} :
        /\ Enqueue(k)
        /\ k = "close" => open' = FALSE
        /\ k # "close" => open /\ open' = open
  BY DEF Write, Clear, Close
<1>2. /\ n \in Tasks
      /\ status' = [status EXCEPT ![n] = IF spawned = 0 THEN "running" ELSE "waiting"]
      /\ kind' = [kind EXCEPT ![n] = k]
      /\ UNCHANGED <<stage, txn, entries, result>>
  BY <1>1, SpawnEffect DEF TreeInv, Enqueue
<1>3. status \in [Tasks -> Status] /\ \A t \in Tasks : t >= n <=> status[t] = "idle"
  BY <1>2, QueueAssumption DEF TreeInv, QueueInv, QueueTypeOK, LinkedInOrder, Tasks
<1>4. \/ /\ spawned = 0 /\ k # "close"
         /\ txs' = Append(txs, n) /\ fate' = [fate EXCEPT ![n] = "open"]
      \/ (spawned # 0 \/ k = "close") /\ UNCHANGED <<txs, fate>>
  BY <1>1 DEF Enqueue, Begin, TreeInv, QueueInv, LatestQueued
<1>5. (spawned = 0 => status'[n] = "running") /\ (spawned # 0 => status'[n] = "waiting")
  BY <1>2, <1>3
<1> DEFINE first == spawned = 0
<1> HIDE DEF n, first
<1>6. \A t \in Tasks : t # n => status'[t] = status[t] /\ kind'[t] = kind[t]
  BY <1>2, <1>3 DEF TreeInv, TreeTypes
<1>7. status'[n] \in {"running", "waiting"} /\ kind'[n] = k /\ status[n] = "idle"
  BY <1>2, <1>3, <1>5, QueueAssumption DEF TreeInv, TreeTypes, Tasks
<1>8. fate[n] = "none" /\ kind[n] = "none" /\ stage[n] = "begin"
  BY <1>2, <1>7 DEF TreeInv, TreeTypes, Fated, Numbered, EditedByWork
<1>9. \A t \in Tasks : /\ t # n => fate'[t] = fate[t]
                       /\ t = n => fate'[t] \in {"none", "open"}
  BY <1>4, <1>8 DEF TreeInv, TreeTypes
<1>10. QueueInv'
  BY <1>1, SpawnInv DEF TreeInv, Enqueue
<1>11. TreeTypes'
  <2>1. txs' \in Seq(Tasks) /\ fate' \in [Tasks -> Fates]
    <3>1. txs \in Seq(Tasks) /\ fate \in [Tasks -> Fates] /\ "open" \in Fates
      BY DEF TreeInv, TreeTypes, Fates
    <3>2. Append(txs, n) \in Seq(Tasks) /\ [fate EXCEPT ![n] = "open"] \in [Tasks -> Fates]
      BY <1>2, <3>1
    <3> QED
      BY <1>2, <1>4, <3>1, <3>2
  <2> QED
    BY <1>1, <1>2, <2>1 DEF TreeInv, TreeTypes, Kinds
<1>12. Numbered'
  BY <1>2, <1>6, <1>7 DEF TreeInv, Numbered
<1>13. EditedByWork'
  BY <1>2, <1>6, <1>7 DEF TreeInv, EditedByWork
<1>14. Fated'
  <2> SUFFICES ASSUME NEW t \in Tasks
               PROVE  /\ fate'[t] = "none" <=>
                           \/ status'[t] \in {"idle", "waiting", "abandoned"}
                           \/ kind'[t] = "close"
                      /\ fate'[t] \in {"stored", "lost"} =>
                           status'[t] \in {"done", "abandoned"} \/ stage'[t] = "committing"
    BY DEF Fated, Over, Settled
  <2>1. CASE t # n
    BY <1>2, <1>6, <1>9, <2>1 DEF TreeInv, Fated, Over, Settled
  <2>2. CASE t = n
    <3>1. CASE spawned = 0 /\ k # "close"
      <4>1. fate'[n] = "open"
        BY <1>2, <1>4, <3>1 DEF TreeInv, TreeTypes
      <4> QED
        BY <1>5, <1>7, <2>2, <3>1, <4>1
    <3>2. CASE spawned # 0 \/ k = "close"
      <4>1. fate'[n] = "none"
        BY <1>4, <1>8, <3>2
      <4> QED
        BY <1>5, <1>7, <2>2, <3>2, <4>1
    <3> QED
      BY <3>1, <3>2
  <2> QED
    BY <2>1, <2>2
<1>15. \A u \in Tasks : status[u] = "abandoned" => status'[u] = "abandoned"
  BY <1>6, <1>7
<1>16. Listed' /\ TxsOrder'
  <2>1. CASE UNCHANGED <<txs, fate>>
    <3>1. \A u \in Tasks : (UnderWay(u)' <=> UnderWay(u)) /\ (Over(u)' <=> Over(u))
      BY <2>1 DEF UnderWay, Over
    <3> QED
      BY <1>15, <2>1, <3>1, TxsKept
  <2>2. CASE txs' = Append(txs, n) /\ fate' = [fate EXCEPT ![n] = "open"]
    <3>1. \A u \in Tasks : n < u => fate[u] = "none"
      BY <1>2, <1>3 DEF TreeInv, Fated, Tasks
    <3> QED
      BY <1>2, <1>8, <1>11, <1>15, <2>2, <3>1, TxsBegun
  <2> QED
    BY <1>4, <2>1, <2>2
<1>17. ClosedOff'
  <2> SUFFICES ASSUME NEW s \in Tasks, kind'[s] = "close"
               PROVE  /\ ~open'
                      /\ \A t \in Tasks : t > s => kind'[t] \in {"none", "close"}
    BY DEF ClosedOff
  <2>1. CASE s = n
    <3>1. \A t \in Tasks : t > n => kind[t] = "none"
      BY <1>2, <1>3, QueueAssumption DEF TreeInv, Numbered, Tasks
    <3>2. \A t \in Tasks : t > n => t # n
      BY <1>2 DEF Tasks
    <3> QED
      BY <1>1, <1>6, <1>7, <2>1, <3>1, <3>2
  <2>2. CASE s # n
    <3>1. ~open /\ \A t \in Tasks : t > s => kind[t] \in {"none", "close"}
      BY <1>6, <2>2 DEF TreeInv, ClosedOff
    <3> QED
      BY <1>1, <1>6, <1>7, <3>1
  <2> QED
    BY <2>1, <2>2
<1>18. EntriesOfStored' /\ StoredAsTold'
  <2>1. ASSUME NEW u \in Tasks, kind'[u] = "write", result[u] = "ok" PROVE fate[u] = "stored"
    <3>1. CASE u = n
      <4>1. result[n] # "ok"
        BY <1>2, <1>7 DEF TreeInv, Numbered
      <4> QED
        BY <2>1, <3>1, <4>1
    <3>2. CASE u # n
      BY <1>6, <2>1, <3>2, KeptForm DEF TreeInv, Kept
    <3> QED
      BY <3>1, <3>2
  <2> QED
    BY <1>2, <1>6, <1>8, <1>9, <1>15, <2>1, EntriesKept
<1> QED
  BY <1>10, <1>11, <1>12, <1>13, <1>14, <1>16, <1>17, <1>18 DEF TreeInv

(* A queued call gets its turn: of the calls behind it only such may have begun
   a transaction as an abandoned one lies between. *)
LEMMA TurnKeeps ==
  ASSUME TreeInv, NEW t \in Tasks, Turn(t)
  PROVE  TreeInv'
<1>1. /\ status[t] = "waiting" /\ status' = [status EXCEPT ![t] = "running"]
      /\ UNCHANGED <<open, kind, stage, txn, entries, result>>
      /\ \/ kind[t] = "close" /\ UNCHANGED <<txs, fate>>
         \/ /\ kind[t] # "close"
            /\ txs' = Append(txs, t) /\ fate' = [fate EXCEPT ![t] = "open"]
  BY DEF Turn, Start, Begin
<1>2. QueueInv'
  BY StartInv DEF TreeInv, Turn
<1>3. status'[t] = "running" /\ \A u \in Tasks : u # t => status'[u] = status[u]
  BY <1>1 DEF TreeInv, QueueInv, QueueTypeOK
<1>4. fate[t] = "none" /\ stage[t] = "begin"
  BY <1>1 DEF TreeInv, TreeTypes, Fated, EditedByWork
<1>5. \A u \in Tasks : /\ u # t => fate'[u] = fate[u]
                       /\ u = t => fate'[u] = IF kind[t] = "close" THEN "none" ELSE "open"
  BY <1>1, <1>4 DEF TreeInv, TreeTypes
<1>6. TreeTypes'
  <2>1. txs' \in Seq(Tasks) /\ fate' \in [Tasks -> Fates]
    <3>1. txs \in Seq(Tasks) /\ fate \in [Tasks -> Fates] /\ "open" \in Fates
      BY DEF TreeInv, TreeTypes, Fates
    <3>2. Append(txs, t) \in Seq(Tasks) /\ [fate EXCEPT ![t] = "open"] \in [Tasks -> Fates]
      BY <3>1
    <3> QED
      BY <1>1, <3>1, <3>2
  <2> QED
    BY <1>1, <2>1 DEF TreeInv, TreeTypes
<1>7. Numbered' /\ EditedByWork' /\ ClosedOff'
  BY <1>1, <1>3 DEF TreeInv, Numbered, EditedByWork, ClosedOff
<1>8. Fated'
  BY <1>1, <1>3, <1>5 DEF TreeInv, Fated, Over, Settled
<1>9. \A u \in Tasks : status[u] = "abandoned" => status'[u] = "abandoned"
  BY <1>1, <1>3
<1>10. Listed' /\ TxsOrder'
  <2>1. CASE UNCHANGED <<txs, fate>>
    <3>1. \A u \in Tasks : (UnderWay(u)' <=> UnderWay(u)) /\ (Over(u)' <=> Over(u))
      BY <2>1 DEF UnderWay, Over
    <3> QED
      BY <1>9, <2>1, <3>1, TxsKept
  <2>2. CASE txs' = Append(txs, t) /\ fate' = [fate EXCEPT ![t] = "open"]
    <3>1. ASSUME NEW u \in Tasks, t < u, fate[u] # "none" PROVE ~Ordered(t, u)'
      <4>1. status[u] \in {"running", "done"}
        BY <3>1 DEF TreeInv, QueueInv, QueueTypeOK, Fated, Status
      <4>2. ~Ordered(t, u)
        BY <1>1, <3>1, <4>1 DEF TreeInv, QueueInv, BegunBehindSettled, Settled, Ordered
      <4> QED
        BY <1>9, <4>2, OrderedLess
    <3> QED
      BY <1>4, <1>6, <1>9, <2>2, <3>1, TxsBegun
  <2> QED
    BY <1>1, <2>1, <2>2
<1>11. EntriesOfStored' /\ StoredAsTold'
  <2>1. \A u \in Tasks : fate'[u] = "stored" <=> fate[u] = "stored"
    BY <1>4, <1>5
  <2>2. \A u \in Tasks : kind[u] = "write" /\ result[u] = "ok" => fate[u] = "stored"
    BY KeptForm DEF TreeInv, Kept
  <2> QED
    BY <1>1, <1>9, <2>1, <2>2, EntriesKept
<1> QED
  BY <1>2, <1>6, <1>7, <1>8, <1>10, <1>11 DEF TreeInv

(* What becomes of the parts that know of transactions in a step that begins
   and ends none; a failed request is all that may happen to one. *)
LEMMA Quiet ==
  ASSUME TreeInv, txs' = txs, entries' = entries, kind' = kind,
         \A u \in Tasks :
           /\ status[u] = "abandoned" => status'[u] = "abandoned"
           /\ fate'[u] = fate[u] \/ (fate[u] = "open" /\ fate'[u] = "doomed")
           /\ fate[u] = "stored" => txn'[u] = txn[u]
           /\ kind[u] = "write" /\ result'[u] = "ok" => fate[u] = "stored"
  PROVE  Listed' /\ TxsOrder' /\ EntriesOfStored' /\ StoredAsTold'
<1>1. \A u \in Tasks : /\ UnderWay(u)' <=> UnderWay(u)
                       /\ Over(u)' <=> Over(u)
                       /\ fate'[u] = "stored" <=> fate[u] = "stored"
  BY DEF UnderWay, Over
<1>2. Listed' /\ TxsOrder'
  BY <1>1, TxsKept
<1>3. EntriesOfStored' /\ StoredAsTold'
  BY <1>1, EntriesKept
<1> QED
  BY <1>2, <1>3

(* A queued write is aborted. *)
LEMMA AbortKeeps ==
  ASSUME TreeInv, NEW t \in Tasks, Abort(t)
  PROVE  TreeInv'
<1>1. /\ status[t] = "waiting" /\ status' = [status EXCEPT ![t] = "abandoned"]
      /\ result' = [result EXCEPT ![t] = "error"]
      /\ UNCHANGED <<open, kind, stage, txs, txn, fate, entries>>
  BY DEF Abort, Abandon
<1>2. QueueInv'
  BY SettleInv DEF TreeInv, Abort
<1>3. status'[t] = "abandoned" /\ \A u \in Tasks : u # t => status'[u] = status[u]
  BY <1>1 DEF TreeInv, QueueInv, QueueTypeOK
<1>4. result'[t] = "error" /\ \A u \in Tasks : u # t => result'[u] = result[u]
  BY <1>1 DEF TreeInv, TreeTypes
<1>5. TreeTypes'
  BY <1>1 DEF TreeInv, TreeTypes, Results
<1>6. Numbered' /\ EditedByWork' /\ ClosedOff'
  BY <1>1, <1>3, <1>4 DEF TreeInv, Numbered, EditedByWork, ClosedOff
<1>7. Fated'
  BY <1>1, <1>3 DEF TreeInv, Fated, Over, Settled
<1>8. Listed' /\ TxsOrder' /\ EntriesOfStored' /\ StoredAsTold'
  <2>1. \A u \in Tasks : kind[u] = "write" /\ result'[u] = "ok" => fate[u] = "stored"
    BY <1>4, KeptForm DEF TreeInv, Kept
  <2>2. \A u \in Tasks : status[u] = "abandoned" => status'[u] = "abandoned"
    BY <1>1, <1>3
  <2> QED
    BY <1>1, <2>1, <2>2, Quiet
<1> QED
  BY <1>2, <1>5, <1>6, <1>7, <1>8 DEF TreeInv

(* The job of a write reads, edits and asks for the commit. *)
LEMMA JobKeeps ==
  ASSUME TreeInv, NEW t \in Tasks, ReadRoot(t) \/ EditEntry(t) \/ JobReturns(t)
  PROVE  TreeInv'
<1>1. /\ status[t] = "running" /\ stage[t] # "committing"
      /\ UNCHANGED <<spawned, queue, last, status, open, kind, txs, fate, entries, result>>
  BY DEF ReadRoot, EditEntry, JobReturns, Working, Running, queueVars
<1>2. /\ txn' = txn \/ (/\ stage[t] = "editing" /\ txn[t] < MaxEdits
                        /\ stage' = stage /\ txn' = [txn EXCEPT ![t] = txn[t] + 1])
      /\ stage' = stage \/ stage' = [stage EXCEPT ![t] = "editing"]
           \/ stage' = [stage EXCEPT ![t] = "committing"]
  BY DEF ReadRoot, EditEntry, JobReturns
<1>3. QueueInv'
  BY <1>1 DEF TreeInv, QueueInv, QueueTypeOK, LatestQueued, LinkedInOrder,
              BegunBehindSettled, Settled
<1>4. TreeTypes'
  <2>1. stage' \in [Tasks -> Stages]
    BY <1>2 DEF TreeInv, TreeTypes, Stages
  <2>2. txn' \in [Tasks -> 0 .. MaxEdits]
    <3>1. txn[t] \in 0 .. MaxEdits
      BY DEF TreeInv, TreeTypes
    <3>2. txn[t] < MaxEdits => txn[t] + 1 \in 0 .. MaxEdits
      BY <3>1, EditsAssumption
    <3> QED
      BY <1>2, <3>2 DEF TreeInv, TreeTypes
  <2> QED
    BY <1>1, <2>1, <2>2 DEF TreeInv, TreeTypes
<1>5. Numbered' /\ ClosedOff'
  BY <1>1 DEF TreeInv, Numbered, ClosedOff
<1>6. EditedByWork'
  BY <1>1, <1>2 DEF TreeInv, TreeTypes, EditedByWork
<1>7. \A u \in Tasks : u # t => txn'[u] = txn[u] /\ stage'[u] = stage[u]
  BY <1>2 DEF TreeInv, TreeTypes
<1>8. ~Over(t)
  BY <1>1 DEF TreeInv, Fated, Settled
<1>9. Fated'
  BY <1>1, <1>7, <1>8 DEF TreeInv, Fated, Over, Settled
<1>10. Listed' /\ TxsOrder' /\ EntriesOfStored' /\ StoredAsTold'
  <2>1. \A u \in Tasks : kind[u] = "write" /\ result[u] = "ok" => fate[u] = "stored"
    BY KeptForm DEF TreeInv, Kept
  <2>2. \A u \in Tasks : fate[u] = "stored" => txn'[u] = txn[u]
    BY <1>7, <1>8 DEF Over
  <2> QED
    BY <1>1, <2>1, <2>2, Quiet
<1> QED
  BY <1>3, <1>4, <1>5, <1>6, <1>9, <1>10 DEF TreeInv

(* A call returns or throws; one of a write returns without an error only when
   its transaction is stored. *)
LEMMA ReturnKeeps ==
  ASSUME TreeInv, NEW t \in Tasks, NEW outcome \in {"ok", "error"}, Return(t, outcome),
         fate' = fate \/ (fate[t] = "open" /\ fate' = [fate EXCEPT ![t] = "doomed"]),
         kind[t] = "write" /\ outcome = "ok" => fate[t] = "stored"
  PROVE  TreeInv'
<1>1. /\ status[t] = "running" /\ status' = [status EXCEPT ![t] = "done"]
      /\ result' = [result EXCEPT ![t] = outcome]
      /\ UNCHANGED <<open, kind, stage, txs, txn, entries>>
  BY DEF Return, Finish
<1>2. QueueInv'
  BY SettleInv DEF TreeInv, Return
<1>3. status'[t] = "done" /\ \A u \in Tasks : u # t => status'[u] = status[u]
  BY <1>1 DEF TreeInv, QueueInv, QueueTypeOK
<1>4. result'[t] = outcome /\ \A u \in Tasks : u # t => result'[u] = result[u]
  BY <1>1 DEF TreeInv, TreeTypes
<1>5. TreeTypes'
  BY <1>1 DEF TreeInv, TreeTypes, Results, Fates
<1>6. Numbered' /\ EditedByWork' /\ ClosedOff'
  BY <1>1, <1>3, <1>4 DEF TreeInv, Numbered, EditedByWork, ClosedOff
<1>7. \A u \in Tasks :
        fate'[u] = fate[u] \/ (fate[u] = "open" /\ fate'[u] = "doomed")
  BY DEF TreeInv, TreeTypes
<1>8. Fated'
  BY <1>1, <1>3, <1>7 DEF TreeInv, Fated, Over, Settled
<1>9. Listed' /\ TxsOrder' /\ EntriesOfStored' /\ StoredAsTold'
  <2>1. \A u \in Tasks : kind[u] = "write" /\ result'[u] = "ok" => fate[u] = "stored"
    BY <1>4, KeptForm DEF TreeInv, Kept
  <2>2. \A u \in Tasks : status[u] = "abandoned" => status'[u] = "abandoned"
    BY <1>1, <1>3
  <2> QED
    BY <1>1, <1>7, <2>1, <2>2, Quiet
<1> QED
  BY <1>2, <1>5, <1>6, <1>8, <1>9 DEF TreeInv

LEMMA CallReturns ==
  ASSUME TreeInv, NEW t \in Tasks,
         \/ RootMissing(t) \/ JobThrows(t) \/ RequestFails(t) \/ WriteReturns(t)
         \/ ClearReturns(t) \/ Closed(t)
  PROVE  TreeInv'
<1>1. CASE RootMissing(t) \/ JobThrows(t)
  BY <1>1, ReturnKeeps DEF RootMissing, JobThrows
<1>2. CASE RequestFails(t)
  <2>1. /\ Return(t, "error") /\ fate' = [fate EXCEPT ![t] = "doomed"]
        /\ txs # <<>> /\ Head(txs) = t /\ status[t] = "running"
        /\ kind[t] = "clear" \/ stage[t] # "committing"
    BY <1>2 DEF RequestFails, Served, Working, Running
  <2>2. UnderWay(t)
    <3>1. 1 \in DOMAIN txs /\ txs[1] = t
      BY <2>1 DEF TreeInv, TreeTypes
    <3> QED
      BY <3>1 DEF TreeInv, Listed
  <2>3. fate[t] = "open" \/ fate' = fate
    BY <2>1, <2>2 DEF TreeInv, TreeTypes, UnderWay
  <2> QED
    BY <2>1, <2>3, ReturnKeeps
<1>3. CASE WriteReturns(t) \/ ClearReturns(t) \/ Closed(t)
  BY <1>3, ReturnKeeps DEF WriteReturns, ClearReturns, Closed, Working
<1> QED
  BY <1>1, <1>2, <1>3

-----------------------------------------------------------------------------
(* What the end of a transaction does to all parts but the entries. *)
LEMMA EndKeeps ==
  ASSUME TreeInv, NEW t \in Tasks, NEW outcome \in {"stored", "lost"}, Ends(t, outcome)
  PROVE  /\ QueueInv' /\ Numbered' /\ EditedByWork' /\ Fated' /\ ClosedOff'
         /\ entries' \in Seq(Edit) => TreeTypes'
         /\ UNCHANGED <<status, kind, txn, result>>
         /\ fate'[t] = outcome
<1>1. /\ UNCHANGED <<spawned, queue, last, status, open, kind, stage, txn, result>>
      /\ Settled(t) \/ stage[t] = "committing"
      /\ fate' = [fate EXCEPT ![t] = outcome]
  BY DEF Ends, queueVars
<1>2. /\ txs' \in Seq(Tasks) /\ fate' \in [Tasks -> Fates]
      /\ UnderWay(t) /\ \A u \in Tasks : u # t => fate'[u] = fate[u]
  BY TxsEnded
<1>3. fate'[t] = outcome
  BY <1>1 DEF TreeInv, TreeTypes
<1>4. QueueInv'
  BY <1>1 DEF TreeInv, QueueInv, QueueTypeOK, LatestQueued, LinkedInOrder,
              BegunBehindSettled, Settled
<1>5. Numbered' /\ EditedByWork' /\ ClosedOff'
  BY <1>1 DEF TreeInv, Numbered, EditedByWork, ClosedOff
<1>6. Fated'
  <2>1. fate[t] # "none"
    BY <1>2 DEF UnderWay
  <2> QED
    BY <1>1, <1>2, <1>3, <2>1 DEF TreeInv, Fated, Over, Settled
<1>7. entries' \in Seq(Edit) => TreeTypes'
  BY <1>1, <1>2 DEF TreeInv, TreeTypes
<1> QED
  BY <1>1, <1>3, <1>4, <1>5, <1>6, <1>7

(* A transaction is aborted: nothing is stored. *)
LEMMA AbortsKeeps ==
  ASSUME TreeInv, NEW t \in Tasks, Aborts(t)
  PROVE  TreeInv'
<1>1. Ends(t, "lost") /\ entries' = entries
  BY DEF Aborts, storeVars
<1>2. /\ QueueInv' /\ Numbered' /\ EditedByWork' /\ Fated' /\ ClosedOff' /\ TreeTypes'
      /\ UNCHANGED <<status, kind, txn, result>> /\ fate'[t] = "lost"
  BY <1>1, EndKeeps DEF TreeInv, TreeTypes
<1>3. /\ Listed' /\ TxsOrder' /\ UnderWay(t)
      /\ \A u \in Tasks : u # t => fate'[u] = fate[u]
  BY <1>1, TxsEnded
<1>4. \A u \in Tasks : fate'[u] = "stored" <=> fate[u] = "stored"
  BY <1>2, <1>3 DEF UnderWay
<1>5. \A u \in Tasks : kind[u] = "write" /\ result[u] = "ok" => fate[u] = "stored"
  BY KeptForm DEF TreeInv, Kept
<1>6. EntriesOfStored' /\ StoredAsTold'
  BY <1>1, <1>2, <1>4, <1>5, EntriesKept
<1> QED
  BY <1>2, <1>3, <1>6 DEF TreeInv

(* The edits of a write are stored: a clear behind it that is stored already was
   let past by an abort between the two. *)
LEMMA StoreKeeps ==
  ASSUME TreeInv, NEW t \in Tasks, WriteCompletes(t)
  PROVE  TreeInv'
<1>1. Ends(t, "stored") /\ entries' = Stored(t) /\ kind[t] = "write"
  BY DEF WriteCompletes
<1>2. /\ Stored(t) \in Seq(Edit)
      /\ Present(t)' = Present(t) \cup 1 .. txn[t]
      /\ \A u \in Tasks : u # t => Present(u)' = Present(u)
      /\ \A i \in DOMAIN Stored(t) :
           \/ i \in DOMAIN entries /\ Stored(t)[i] = entries[i]
           \/ Stored(t)[i].task = t
  BY <1>1, StoredEdits
<1>3. /\ QueueInv' /\ Numbered' /\ EditedByWork' /\ Fated' /\ ClosedOff' /\ TreeTypes'
      /\ UNCHANGED <<status, kind, txn, result>> /\ fate'[t] = "stored"
  BY <1>1, <1>2, EndKeeps
<1>4. /\ Listed' /\ TxsOrder' /\ UnderWay(t)
      /\ \A u \in Tasks : u # t => fate'[u] = fate[u]
  BY <1>1, TxsEnded
<1>5. EntriesOfStored'
  <2> SUFFICES ASSUME NEW i \in DOMAIN Stored(t) PROVE fate'[Stored(t)[i].task] = "stored"
    BY <1>1 DEF EntriesOfStored
  <2>1. CASE Stored(t)[i].task = t
    BY <1>3, <2>1
  <2>2. CASE i \in DOMAIN entries /\ Stored(t)[i] = entries[i]
    <3>1. entries[i].task \in Tasks /\ fate[entries[i].task] = "stored"
      BY <2>2, EntryTask DEF TreeInv, EntriesOfStored
    <3> QED
      BY <1>3, <1>4, <2>2, <3>1
  <2> QED
    BY <1>2, <2>1, <2>2
<1>6. Cleared' = Cleared /\ Cleared \subseteq Tasks
  BY <1>1, <1>3, <1>4 DEF Cleared
<1>7. \A s, u \in Tasks : Ordered(s, u)' <=> Ordered(s, u)
  BY <1>3 DEF Ordered
<1>8. ASSUME NEW u \in Tasks, kind'[u] = "write" PROVE Kept(u)'
  <2>1. CASE u = t
    <3>1. Present(t)' = 1 .. txn[t]
      BY <1>2, <1>4, NothingEarly DEF TreeInv, UnderWay
    <3>2. ASSUME NEW c \in Cleared, c > t PROVE ~Ordered(t, c)
      BY <1>4, <1>6, <3>2 DEF TreeInv, TxsOrder, Over, Cleared
    <3> QED
      BY <1>3, <1>6, <1>7, <2>1, <3>1, <3>2 DEF Kept
  <2>2. CASE u # t
    <3>1. Kept(u)
      BY <1>3, <1>8, KeptForm DEF TreeInv
    <3> QED
      BY <1>2, <1>3, <1>4, <1>6, <1>7, <2>2, <3>1 DEF Kept
  <2> QED
    BY <2>1, <2>2
<1>9. StoredAsTold'
  BY <1>8 DEF StoredAsTold, Kept, Present, Cleared
<1> QED
  BY <1>3, <1>4, <1>5, <1>9 DEF TreeInv

(* The store is cleared: a write behind the clear that is stored already was let
   past. *)
LEMMA ClearKeeps ==
  ASSUME TreeInv, NEW t \in Tasks, ClearCompletes(t)
  PROVE  TreeInv'
<1>1. Ends(t, "stored") /\ entries' = <<>> /\ kind[t] = "clear"
  BY DEF ClearCompletes
<1>2. /\ QueueInv' /\ Numbered' /\ EditedByWork' /\ Fated' /\ ClosedOff' /\ TreeTypes'
      /\ UNCHANGED <<status, kind, txn, result>> /\ fate'[t] = "stored"
  BY <1>1, EndKeeps
<1>3. /\ Listed' /\ TxsOrder' /\ UnderWay(t)
      /\ \A u \in Tasks : u # t => fate'[u] = fate[u]
  BY <1>1, TxsEnded
<1>4. EntriesOfStored' /\ \A u \in Tasks : Present(u)' = {}
  BY <1>1 DEF EntriesOfStored, Present
<1>5. t \in Cleared'
  BY <1>1, <1>2 DEF Cleared
<1>6. \A s, u \in Tasks : Ordered(s, u)' <=> Ordered(s, u)
  BY <1>2 DEF Ordered
<1>7. ASSUME NEW u \in Tasks, kind'[u] = "write" PROVE Kept(u)'
  <2>1. u # t /\ (u > t \/ t > u) /\ fate'[u] = fate[u]
    BY <1>1, <1>2, <1>3, <1>7, QueueAssumption DEF Tasks
  <2>2. result'[u] = "ok" => fate'[u] = "stored"
    BY <1>2, <1>7, <2>1, KeptForm DEF TreeInv, Kept
  <2>3. fate'[u] = "stored" => t > u \/ ~Ordered(t, u)'
    BY <1>3, <1>6, <2>1 DEF TreeInv, TxsOrder, Over
  <2> QED
    BY <1>4, <1>5, <2>2, <2>3 DEF Kept
<1>8. StoredAsTold'
  BY <1>7 DEF StoredAsTold, Kept, Present, Cleared
<1> QED
  BY <1>2, <1>3, <1>4, <1>8 DEF TreeInv

LEMMA TreeStep == TreeInv /\ [Next]_vars => TreeInv'
<1> SUFFICES ASSUME TreeInv, [Next]_vars PROVE TreeInv'
  OBVIOUS
<1>1. CASE UNCHANGED vars
  <2>1. UNCHANGED <<spawned, queue, last, status, open, kind, stage, txs, txn, fate, entries,
                    result>>
    BY <1>1 DEF vars, queueVars, treeVars
  <2>2. QueueInv'
    BY <2>1 DEF TreeInv, QueueInv, QueueTypeOK, LatestQueued, LinkedInOrder,
                BegunBehindSettled, Settled
  <2>3. TreeTypes' /\ Numbered' /\ EditedByWork' /\ Fated' /\ ClosedOff'
    BY <2>1 DEF TreeInv, TreeTypes, Numbered, EditedByWork, Fated, Over, Settled, ClosedOff
  <2>4. \A u \in Tasks : kind[u] = "write" /\ result[u] = "ok" => fate[u] = "stored"
    BY KeptForm DEF TreeInv, Kept
  <2>5. Listed' /\ TxsOrder' /\ EntriesOfStored' /\ StoredAsTold'
    BY <2>1, <2>4, Quiet
  <2> QED
    BY <2>2, <2>3, <2>5 DEF TreeInv
<1>2. CASE Write \/ Clear \/ Close
  BY <1>2, EnqueueKeeps
<1>3. ASSUME NEW t \in Tasks, Step(t) \/ Abort(t) \/ Database(t) PROVE TreeInv'
  BY <1>3, TurnKeeps, AbortKeeps, JobKeeps, CallReturns, StoreKeeps, ClearKeeps, AbortsKeeps
  DEF Step, Database
<1> QED
  BY <1>1, <1>2, <1>3 DEF Next

-----------------------------------------------------------------------------
(* A write that returned is stored as a whole, one that threw as a whole or not
   at all, and what is stored goes only with a clear called behind it, however
   many calls are made, whichever of them fail and whichever are aborted. *)
THEOREM SettledStored == Spec => []StoredAsTold
<1>1. TreeInv => StoredAsTold
  BY DEF TreeInv
<1> QED
  BY <1>1, TreeInit, TreeStep, PTL DEF Spec

(* When a close() returns that no abort let past others, the calls in front of it
   have settled and those behind it are calls of close() too: no transaction is
   begun any more, and one that is still to be stored belongs to a clear or to a
   call that threw. *)
THEOREM ClosedStays == Spec => ClosedForGood
<1> DEFINE closed == \E t \in Tasks : kind[t] = "close" /\ status[t] = "done" /\ Ordered(0, t)
           stays == /\ \A t \in Tasks : fate[t] = "none" => fate'[t] = "none"
                    /\ \/ UNCHANGED storeVars
                       \/ \E t \in Tasks : LeftBehind(t) /\ fate'[t] = "stored"
<1>1. TreeInv /\ [Next]_vars => [closed => stays]_vars
  <2> SUFFICES ASSUME TreeInv, Next, NEW t \in Tasks,
                      kind[t] = "close", status[t] = "done", Ordered(0, t)
               PROVE  stays
    BY Zenon
  <2>1. ASSUME NEW u \in Tasks, kind[u] \in {"write", "clear"} PROVE Settled(u)
    <3>1. t # u
      BY <2>1
    <3>2. CASE u < t
      <4>1. Settled(u) \/ \E k \in (u + 1) .. (t - 1) : status[k] = "abandoned"
        BY <3>2 DEF TreeInv, QueueInv, BegunBehindSettled
      <4>2. \A k \in (u + 1) .. (t - 1) : k \in (0 + 1) .. (t - 1)
        BY QueueAssumption DEF Tasks
      <4> QED
        BY <4>1, <4>2 DEF Ordered
    <3>3. CASE u > t
      BY <2>1, <3>3 DEF TreeInv, ClosedOff
    <3> QED
      BY <3>1, <3>2, <3>3, QueueAssumption DEF Tasks
  <2>2. ~open
    BY DEF TreeInv, ClosedOff
  <2>3. ASSUME UNCHANGED <<fate, storeVars>> PROVE stays
    BY <2>3
  <2>4. CASE Write \/ Clear \/ Close
    <3>1. Enqueue("close")
      BY <2>2, <2>4 DEF Write, Clear, Close
    <3>2. UNCHANGED <<fate, storeVars>>
      BY <3>1 DEF Enqueue, Begin, storeVars
    <3> QED
      BY <2>3, <3>2
  <2>5. ASSUME NEW u \in Tasks, Step(u) \/ Abort(u) \/ Database(u) PROVE stays
    <3>1. CASE Turn(u)
      <4>1. kind[u] = "close"
        <5>1. status[u] = "waiting" /\ kind[u] \in Kinds /\ kind[u] # "none"
          BY <3>1 DEF Turn, Start, TreeInv, TreeTypes, Numbered
        <5> QED
          BY <2>1, <5>1 DEF Kinds, Settled
      <4>2. UNCHANGED <<fate, storeVars>>
        BY <3>1, <4>1 DEF Turn, Begin, storeVars
      <4> QED
        BY <2>3, <4>2
    <3>2. CASE \/ Abort(u) \/ ReadRoot(u) \/ RootMissing(u) \/ EditEntry(u) \/ JobThrows(u)
               \/ JobReturns(u) \/ WriteReturns(u) \/ ClearReturns(u) \/ Closed(u)
      <4>1. UNCHANGED <<fate, storeVars>>
        BY <3>2 DEF Abort, ReadRoot, RootMissing, EditEntry, JobThrows, JobReturns,
                    WriteReturns, ClearReturns, Closed, Return, storeVars
      <4> QED
        BY <2>3, <4>1
    <3>3. CASE RequestFails(u)
      <4>1. kind[u] \in {"write", "clear"} /\ status[u] = "running"
        BY <3>3 DEF RequestFails, Working, Running
      <4> QED
        BY <2>1, <4>1 DEF Settled
    <3>4. CASE Database(u)
      <4>1. PICK outcome \in {"stored", "lost"} : Ends(u, outcome)
        BY <3>4 DEF Database, WriteCompletes, ClearCompletes, Aborts
      <4>2. UnderWay(u) /\ \A v \in Tasks : v # u => fate'[v] = fate[v]
        BY <4>1, TxsEnded
      <4>3. \A v \in Tasks : fate[v] = "none" => fate'[v] = "none"
        BY <4>2 DEF UnderWay
      <4>4. CASE Aborts(u)
        BY <4>3, <4>4 DEF Aborts
      <4>5. CASE WriteCompletes(u) \/ ClearCompletes(u)
        <5>1. /\ Ends(u, "stored") /\ fate[u] = "open" /\ kind[u] \in {"write", "clear"}
          BY <4>5 DEF WriteCompletes, ClearCompletes
        <5>2. fate'[u] = "stored"
          BY <5>1, EndKeeps
        <5>3. status[u] = "done"
          BY <2>1, <5>1 DEF Settled, TreeInv, Fated
        <5>4. kind[u] = "write" => result[u] = "error"
          <6>1. result[u] \in Results /\ result[u] # "pending"
            BY <5>3 DEF TreeInv, TreeTypes, Numbered
          <6>2. kind[u] = "write" => result[u] # "ok"
            BY <5>1, KeptForm DEF TreeInv, Kept
          <6> QED
            BY <6>1, <6>2 DEF Results
        <5> QED
          BY <4>3, <5>1, <5>2, <5>3, <5>4 DEF LeftBehind
      <4> QED
        BY <3>4, <4>4, <4>5 DEF Database
    <3> QED
      BY <2>5, <3>1, <3>2, <3>3, <3>4 DEF Step
  <2> QED
    BY <2>4, <2>5 DEF Next
<1> QED
  BY <1>1, TreeInit, TreeStep, PTL DEF Spec, ClosedForGood

-----------------------------------------------------------------------------
(* The writer.  A change replaces a node and is carried up from level to level,
   until its way ends at the anchor; what is wrong meanwhile are hashes of nodes
   above the one to be updated next. *)

(* The nodes of a level besides its anchor. *)
Others(T, level) == At(T, level) \ {0}

Boundary(T, level, key) == IsBoundary(T[<<level, key>>])

(* The hash of a node is that of the nodes below it. *)
Right(T, level, key) == T[<<level, key>>] = GetHash(T, level, key)

Typed(T) ==
  /\ T = [n \in DOMAIN T |-> T[n]] /\ DOMAIN T \subseteq Nat \X (Keys \cup {0})
  /\ \A n \in DOMAIN T : T[n][1] = n[1]
  /\ <<0, 0>> \in DOMAIN T

(* Every level has the boundaries of the one below. *)
Stacked(T) == \A l \in Nat : Others(T, l + 1) = {k \in Others(T, l) : Boundary(T, l, k)}

(* Anchors go up without a gap. *)
Contiguous(T) == \A l \in Nat : <<l + 1, 0>> \in DOMAIN T => <<l, 0>> \in DOMAIN T

Shaped(T) == Typed(T) /\ Stacked(T) /\ Contiguous(T)

(* The tree between two changes: all hashes are right, and there is an anchor
   above every level that has other nodes; above no other, but that one may be
   left on level 1. *)
WellFormed(T) ==
  /\ Shaped(T)
  /\ \A l \in Nat \ {0} : \A x \in At(T, l) : Right(T, l, x)
  /\ \A l \in Nat : Others(T, l) # {} => <<l + 1, 0>> \in DOMAIN T
  /\ \A l \in Nat \ {0} : <<l + 1, 0>> \in DOMAIN T => Others(T, l) # {}

(* x is the last node of the level up to key p: the one above p. *)
IsLast(T, level, x, p) == x <= p /\ \A y \in Others(T, level) : y <= p => y <= x

(* The tree within a change that has been carried up to level m, where node p
   is to be updated next: what is wrong yet are nodes above p from this level on,
   and anchors. *)
Climbing(T, m, p) ==
  /\ Shaped(T)
  /\ \A l \in Nat \ {0} : \A x \in At(T, l) : Right(T, l, x) \/ (l >= m /\ IsLast(T, l, x, p))
  /\ \A l \in Nat \ {0} : (\E x \in Others(T, l) : x <= p) => <<l, 0>> \in DOMAIN T
  /\ m >= 1 => <<m - 1, 0>> \in DOMAIN T
  /\ m >= 2 => Others(T, m - 1) # {}
  /\ p = 0 \/ m = 0 \/ p \in Others(T, m)

LeavesOf(T, f) ==
  /\ Others(T, 0) = DOMAIN f /\ T[<<0, 0>>] = AnchorHash
  /\ \A k \in DOMAIN f : T[<<0, k>>] = LeafHash(k, f[k])

(* Induction, by way of the least number that is not in a set. *)
LEMMA UpTo ==
  ASSUME NEW L \in Nat, NEW S, 0 \in S, \A n \in 1 .. L : n - 1 \in S => n \in S
  PROVE  L \in S
<1> DEFINE less == OpToRel(<, Nat)
           bad == (0 .. L) \ S
<1> SUFFICES ASSUME L \notin S PROVE FALSE
  OBVIOUS
<1>1. IsWellFoundedOn(less, Nat)
  BY NatLessThanWellFounded
<1>2. \A x, y \in Nat : y < x => <<y, x>> \in less
  BY Zenon DEF OpToRel
<1> HIDE DEF less
<1>3. PICK m \in bad : \A y \in bad : ~ (<<y, m>> \in less)
  <2>1. bad \subseteq Nat /\ bad # {}
    OBVIOUS
  <2> HIDE DEF bad
  <2> QED
    BY <1>1, <2>1, WFMin
<1>4. m \in 1 .. L /\ m - 1 \in 0 .. L /\ m - 1 \in Nat /\ m \in Nat /\ m - 1 < m
  OBVIOUS
<1>5. m - 1 \notin bad
  BY <1>2, <1>3, <1>4
<1> QED
  BY <1>4, <1>5

-----------------------------------------------------------------------------
LEMMA Numbers ==
  ASSUME NEW T, NEW l
  PROVE  /\ At(T, l) \subseteq Keys \cup {0} /\ At(T, l) \subseteq Nat
         /\ Others(T, l) \subseteq Keys /\ Others(T, l) \subseteq At(T, l)
         /\ Keys \subseteq Nat \ {0}
         /\ \A k \in Keys : k \in Others(T, l) <=> k \in At(T, l)
<1>1. Keys \subseteq Nat \ {0}
  BY WriterAssumption
<1>2. At(T, l) \subseteq Keys \cup {0}
  BY DEF At
<1>3. Others(T, l) \subseteq At(T, l) /\ \A k \in At(T, l) : k # 0 => k \in Others(T, l)
  BY DEF Others
<1>4. 0 \notin Others(T, l)
  BY DEF Others
<1>5. At(T, l) \subseteq Nat
  <2>1. \A x \in Keys \cup {0} : x \in Nat
    BY <1>1
  <2> QED
    BY <1>2, <2>1
<1>6. Others(T, l) \subseteq Keys
  BY <1>2, <1>3, <1>4
<1>7. \A k \in Keys : k \in Others(T, l) <=> k \in At(T, l)
  BY <1>1, <1>3
<1> QED
  BY <1>1, <1>2, <1>3, <1>5, <1>6, <1>7

(* What getHash reads, and what it makes of it. *)
Own(T, level, key) ==
  {k \in At(T, level - 1) : /\ k >= key
                            /\ \A b \in At(T, level - 1) :
                                 key < b /\ b <= k => ~Boundary(T, level - 1, b)}

LEMMA GetHashIs ==
  ASSUME NEW T, NEW l \in Nat, NEW key \in Nat
  PROVE  GetHash(T, l, key) = <<l, [k \in Own(T, l, key) |-> T[<<l - 1, k>>]]>>
<1> DEFINE below == {k \in At(T, l - 1) : k >= key}
           own == {k \in below : \A b \in below : key < b /\ b <= k => ~IsBoundary(T[<<l - 1, b>>])}
<1>1. At(T, l - 1) \subseteq Nat
  BY Numbers
<1>2. own = Own(T, l, key)
  BY <1>1 DEF Own, Boundary
<1>3. GetHash(T, l, key) = <<l, [k \in own |-> T[<<l - 1, k>>]]>>
  BY DEF GetHash
<1> HIDE DEF own
<1> QED
  BY <1>2, <1>3

(* Trees that are the same in one level have the same hashes above it. *)
SameLevel(T, U, l) == At(T, l) = At(U, l) /\ \A k \in At(T, l) : T[<<l, k>>] = U[<<l, k>>]

LEMMA SameBelow ==
  ASSUME NEW T, NEW U, NEW l \in Nat, NEW key \in Nat, SameLevel(T, U, l - 1)
  PROVE  GetHash(T, l, key) = GetHash(U, l, key)
<1>1. Own(T, l, key) = Own(U, l, key)
  BY DEF Own, Boundary, SameLevel
<1>2. \A k \in Own(T, l, key) : T[<<l - 1, k>>] = U[<<l - 1, k>>]
  BY DEF Own, SameLevel
<1>3. GetHash(T, l, key) = <<l, [k \in Own(T, l, key) |-> T[<<l - 1, k>>]]>>
      /\ GetHash(U, l, key) = <<l, [k \in Own(U, l, key) |-> U[<<l - 1, k>>]]>>
  BY GetHashIs
<1> QED
  BY <1>1, <1>2, <1>3

(* Two trees that differ in nodes of key p only. *)
ButFor(T, U, p) ==
  \A l \in Nat : \A x \in (Keys \cup {0}) \ {p} :
    (x \in At(T, l) <=> x \in At(U, l)) /\ (x \in At(T, l) => T[<<l, x>>] = U[<<l, x>>])

(* A node's hash does not depend on key p, if the node is behind it or does not
   reach that far. *)
LEMMA Elsewhere ==
  ASSUME NEW T, NEW U, NEW p \in Nat, ButFor(T, U, p), NEW l \in Nat \ {0}, NEW x \in Nat,
         \/ x > p
         \/ \E y \in At(T, l - 1) \cap At(U, l - 1) :
              x < y /\ y <= p /\ Boundary(T, l - 1, y) /\ Boundary(U, l - 1, y)
  PROVE  GetHash(T, l, x) = GetHash(U, l, x)
<1> DEFINE own(V) == Own(V, l, x)
<1>1. l - 1 \in Nat
  OBVIOUS
<1>2. /\ At(T, l - 1) \subseteq Keys \cup {0} /\ At(T, l - 1) \subseteq Nat
      /\ At(U, l - 1) \subseteq Keys \cup {0} /\ At(U, l - 1) \subseteq Nat
  BY Numbers
<1>3. \A k \in Nat : k # p => /\ k \in At(T, l - 1) <=> k \in At(U, l - 1)
                              /\ k \in At(T, l - 1) => T[<<l - 1, k>>] = U[<<l - 1, k>>]
  BY <1>1, <1>2 DEF ButFor
<1>4. p \notin own(T) /\ p \notin own(U)
      /\ \A k \in own(T) \cup own(U) : \A b \in Nat : x < b /\ b <= k => b # p
  <2>1. CASE x > p
    BY <1>2, <2>1 DEF Own
  <2>2. CASE ~ (x > p)
    <3>1. PICK y \in At(T, l - 1) \cap At(U, l - 1) :
            x < y /\ y <= p /\ Boundary(T, l - 1, y) /\ Boundary(U, l - 1, y)
      BY <2>2
    <3>2. \A k \in own(T) \cup own(U) : k < y /\ k \in Nat
      BY <1>2, <3>1 DEF Own
    <3>3. y \in Nat
      BY <1>2, <3>1
    <3> HIDE DEF own
    <3>4. p \notin own(T) /\ p \notin own(U)
      BY <3>1, <3>2, <3>3
    <3>5. ASSUME NEW k \in own(T) \cup own(U), NEW b \in Nat, b <= k PROVE b # p
      BY <3>1, <3>2, <3>3, <3>5
    <3> QED
      BY <3>4, <3>5
  <2> QED
    BY <2>1, <2>2
<1>5. ASSUME NEW k \in own(T) PROVE k \in own(U) /\ T[<<l - 1, k>>] = U[<<l - 1, k>>]
  <2>1. k \in At(T, l - 1) /\ k \in Nat /\ k # p /\ k >= x
    BY <1>2, <1>4 DEF Own
  <2>2. ASSUME NEW b \in At(U, l - 1), x < b, b <= k PROVE ~Boundary(U, l - 1, b)
    <3>1. b # p /\ b \in Nat
      BY <1>2, <1>4, <2>2
    <3>2. b \in At(T, l - 1) /\ T[<<l - 1, b>>] = U[<<l - 1, b>>]
      BY <1>3, <3>1
    <3> QED
      BY <2>2, <3>2 DEF Own, Boundary
  <2> QED
    BY <1>3, <2>1, <2>2 DEF Own
<1>6. ASSUME NEW k \in own(U) PROVE k \in own(T)
  <2>1. k \in At(U, l - 1) /\ k \in Nat /\ k # p /\ k >= x
    BY <1>2, <1>4 DEF Own
  <2>2. ASSUME NEW b \in At(T, l - 1), x < b, b <= k PROVE ~Boundary(T, l - 1, b)
    <3>1. b # p /\ b \in Nat
      BY <1>2, <1>4, <2>2
    <3>2. b \in At(U, l - 1) /\ T[<<l - 1, b>>] = U[<<l - 1, b>>]
      BY <1>3, <3>1
    <3> QED
      BY <2>2, <3>2 DEF Own, Boundary
  <2> QED
    BY <1>3, <2>1, <2>2 DEF Own
<1>7. own(T) = own(U)
  BY <1>5, <1>6
<1> HIDE DEF own
<1>8. GetHash(T, l, x) = <<l, [k \in own(T) |-> T[<<l - 1, k>>]]>>
      /\ GetHash(U, l, x) = <<l, [k \in own(U) |-> U[<<l - 1, k>>]]>>
  BY GetHashIs DEF own
<1> QED
  BY <1>5, <1>7, <1>8

(* A boundary is of a level below MaxLevel. *)
LEMMA BoundaryLevel ==
  ASSUME NEW T, Typed(T), NEW l \in Nat, NEW k \in At(T, l), Boundary(T, l, k)
  PROVE  l < MaxLevel
<1>1. <<l, k>> \in DOMAIN T /\ T[<<l, k>>][1] = l
  BY DEF At, Typed
<1> QED
  BY <1>1 DEF Boundary, IsBoundary

(* What is in a level is in every level below, as a boundary. *)
LEMMA Standing ==
  ASSUME NEW T, Stacked(T), NEW l \in Nat, NEW m \in Nat, l < m, NEW x \in Others(T, m)
  PROVE  x \in Others(T, l) /\ Boundary(T, l, x)
<1> DEFINE S == {d \in 0 .. m - l - 1 : x \in Others(T, m - 1 - d) /\ Boundary(T, m - 1 - d, x)}
<1>1. m - l - 1 \in Nat /\ m - 1 \in Nat /\ (m - 1) + 1 = m
  OBVIOUS
<1>2. 0 \in S
  <2>1. x \in Others(T, m - 1) /\ Boundary(T, m - 1, x)
    BY <1>1 DEF Stacked
  <2>2. m - 1 - 0 = m - 1 /\ 0 \in 0 .. m - l - 1
    BY <1>1
  <2> QED
    BY <2>1, <2>2
<1>3. ASSUME NEW d \in 1 .. m - l - 1, d - 1 \in S PROVE d \in S
  <2>1. m - 1 - (d - 1) = (m - 1 - d) + 1 /\ m - 1 - d \in Nat /\ d \in 0 .. m - l - 1
    BY <1>1
  <2>2. x \in Others(T, (m - 1 - d) + 1)
    BY <1>3, <2>1
  <2>3. x \in Others(T, m - 1 - d) /\ Boundary(T, m - 1 - d, x)
    BY <2>1, <2>2 DEF Stacked
  <2> QED
    BY <2>1, <2>3
<1>4. m - l - 1 \in S
  <2> HIDE DEF S
  <2> QED
    BY <1>1, <1>2, <1>3, UpTo
<1>5. m - 1 - (m - l - 1) = l
  OBVIOUS
<1> QED
  BY <1>4, <1>5

LEMMA AnchorsBelow ==
  ASSUME NEW T, Contiguous(T), NEW l \in Nat, NEW m \in Nat, l <= m, <<m, 0>> \in DOMAIN T
  PROVE  <<l, 0>> \in DOMAIN T
<1> DEFINE S == {d \in 0 .. m - l : <<m - d, 0>> \in DOMAIN T}
<1>1. m - l \in Nat
  OBVIOUS
<1>2. 0 \in S
  <2>1. m - 0 = m /\ 0 \in 0 .. m - l
    BY <1>1
  <2> QED
    BY <2>1
<1>3. ASSUME NEW d \in 1 .. m - l, d - 1 \in S PROVE d \in S
  <2>1. m - (d - 1) = (m - d) + 1 /\ m - d \in Nat /\ d \in 0 .. m - l
    BY <1>1
  <2> QED
    BY <1>3, <2>1 DEF Contiguous
<1>4. m - l \in S
  <2> HIDE DEF S
  <2> QED
    BY <1>1, <1>2, <1>3, UpTo
<1>5. m - (m - l) = l
  OBVIOUS
<1> QED
  BY <1>4, <1>5

(* The largest number of a set that has a bound. *)
LEMMA LastOne ==
  ASSUME NEW S, S \subseteq Nat, NEW p \in Nat, NEW s \in S, \A x \in S : x <= p
  PROVE  Max(S) \in S /\ \A x \in S : x <= Max(S)
<1> DEFINE R == {n \in 0 .. p + 1 : \E x \in S : x >= n}
<1>1. PICK y \in S : \A x \in S : y >= x
  <2> SUFFICES ASSUME \A y \in S : \E x \in S : ~(y >= x) PROVE FALSE
    OBVIOUS
  <2>1. 0 \in R
    BY 0 \in 0 .. p + 1
  <2>2. ASSUME NEW n \in 1 .. p + 1, n - 1 \in R PROVE n \in R
    <3>1. PICK x \in S : x >= n - 1
      BY <2>2
    <3>2. PICK z \in S : ~(x >= z)
      OBVIOUS
    <3>3. z >= n
      BY <3>1, <3>2
    <3> QED
      BY <3>3
  <2>3. p + 1 \in R
    <3> HIDE DEF R
    <3> QED
      BY <2>1, <2>2, UpTo
  <2> QED
    BY <2>3
<1>2. Max(S) = CHOOSE x \in S : \A z \in S : x >= z
  BY DEF Max
<1>3. Max(S) \in S /\ \A x \in S : Max(S) >= x
  BY <1>1, <1>2
<1> QED
  BY <1>3

(* What getFirstSibling finds where p is no boundary. *)
LEMMA SiblingFound ==
  ASSUME NEW T, NEW U, Stacked(T), NEW m \in Nat, NEW p \in Keys, ButFor(T, U, p),
         <<m, 0>> \in DOMAIN U, ~(p \in At(U, m) /\ Boundary(U, m, p))
  PROVE  LET q == FirstSibling(U, m, p)
         IN  /\ q \in Nat /\ q < p
             /\ q = 0 \/ q \in Others(T, m + 1)
             /\ \A y \in Others(T, m + 1) : y < p => y <= q
<1> DEFINE S == {k \in At(U, m) : k <= p /\ (k = 0 \/ Boundary(U, m, k))}
<1>1. Keys \subseteq Nat \ {0} /\ At(U, m) \subseteq Keys \cup {0} /\ S \subseteq Nat /\ p \in Nat
  BY Numbers
<1>2. 0 \in S
  BY <1>1 DEF At
<1>3. FirstSibling(U, m, p) = Max(S)
  BY DEF FirstSibling, Boundary
<1>4. Max(S) \in S /\ \A x \in S : x <= Max(S)
  <2>1. \A x \in S : x <= p
    OBVIOUS
  <2> HIDE DEF S
  <2> QED
    BY <1>1, <1>2, <2>1, LastOne
<1>5. ASSUME NEW k \in Keys, k # p
      PROVE  k \in Others(T, m + 1) <=> k \in At(U, m) /\ Boundary(U, m, k)
  <2>1. k \in Others(T, m + 1) <=> k \in Others(T, m) /\ Boundary(T, m, k)
    BY DEF Stacked
  <2>2. k \in Others(T, m) <=> k \in At(T, m)
    BY Numbers
  <2>3. (k \in At(T, m) <=> k \in At(U, m)) /\ (k \in At(T, m) => T[<<m, k>>] = U[<<m, k>>])
    BY <1>5 DEF ButFor
  <2> QED
    BY <2>1, <2>2, <2>3 DEF Boundary
<1>6. Others(T, m + 1) \subseteq Keys
  BY Numbers
<1>7. \A x \in S : x # p
  BY <1>1
<1>8. Max(S) \in Nat /\ Max(S) < p
  BY <1>1, <1>4, <1>7
<1>9. Max(S) = 0 \/ Max(S) \in Others(T, m + 1)
  BY <1>1, <1>4, <1>5, <1>7
<1>10. ASSUME NEW y \in Others(T, m + 1), y < p PROVE y <= Max(S)
  <2>0. y \in Keys
    BY <1>6
  <2>1. y \in Nat /\ y # p
    BY <1>1, <1>10, <2>0
  <2>2. y \in S
    BY <1>5, <1>10, <2>0, <2>1
  <2> QED
    BY <1>4, <2>2
<1> QED
  BY <1>3, <1>8, <1>9, <1>10

-----------------------------------------------------------------------------
(* What a step does to the node store. *)
LEMMA SetNodeIs ==
  ASSUME NEW T, Typed(T), NEW l \in Nat, NEW p \in Keys \cup {0}, NEW hash, hash[1] = l
  PROVE  LET U == SetNode(T, l, p, hash)
         IN  /\ Typed(U) /\ ButFor(T, U, p) /\ U[<<l, p>>] = hash
             /\ \A j \in Nat : p \in At(U, j) <=> p \in At(T, j) \/ j = l
             /\ \A j \in Nat \ {l} : SameLevel(T, U, j)
<1> DEFINE U == SetNode(T, l, p, hash)
<1>1. /\ DOMAIN U = DOMAIN T \cup {<<l, p>>}
      /\ \A n \in DOMAIN U : U[n] = IF n = <<l, p>> THEN hash ELSE T[n]
      /\ U = [n \in DOMAIN U |-> U[n]]
  BY DEF SetNode
<1> HIDE DEF U
<1>2. \A j, x : <<j, x>> = <<l, p>> <=> j = l /\ x = p
  OBVIOUS
<1>3. \A j, x : <<j, x>> \in DOMAIN U <=> <<j, x>> \in DOMAIN T \/ (j = l /\ x = p)
  BY <1>1, <1>2
<1>4. \A j, x : <<j, x>> \in DOMAIN T /\ ~(j = l /\ x = p) => U[<<j, x>>] = T[<<j, x>>]
  BY <1>1, <1>2, <1>3
<1>5. Typed(U)
  <2>1. DOMAIN U \subseteq Nat \X (Keys \cup {0})
    BY <1>1 DEF Typed
  <2>2. \A n \in DOMAIN U : U[n][1] = n[1]
    BY <1>1 DEF Typed
  <2>3. <<0, 0>> \in DOMAIN U
    BY <1>1 DEF Typed
  <2> QED
    BY <1>1, <2>1, <2>2, <2>3 DEF Typed
<1>6. ButFor(T, U, p)
  <2>1. ASSUME NEW j \in Nat, NEW x \in (Keys \cup {0}) \ {p}
        PROVE  /\ x \in At(T, j) <=> x \in At(U, j)
               /\ x \in At(T, j) => T[<<j, x>>] = U[<<j, x>>]
    BY <1>3, <1>4 DEF At
  <2> QED
    BY <2>1 DEF ButFor
<1>7. U[<<l, p>>] = hash
  BY <1>1
<1>8. \A j \in Nat : p \in At(U, j) <=> p \in At(T, j) \/ j = l
  BY <1>3 DEF At
<1>9. \A j \in Nat \ {l} : SameLevel(T, U, j)
  BY <1>3, <1>4 DEF SameLevel, At
<1> QED
  BY <1>5, <1>6, <1>7, <1>8, <1>9 DEF U

LEMMA DeleteParentsIs ==
  ASSUME NEW T, Typed(T), NEW l \in Nat, NEW p \in Keys \cup {0},
         \A j \in Nat : j > l /\ <<j + 1, p>> \in DOMAIN T => <<j, p>> \in DOMAIN T
  PROVE  LET U == DeleteParents(T, l, p)
         IN  /\ Typed(U) /\ ButFor(T, U, p)
             /\ \A j \in Nat : p \in At(U, j) <=> p \in At(T, j) /\ j <= l
             /\ \A j \in 0 .. l : SameLevel(T, U, j)
<1> DEFINE U == DeleteParents(T, l, p)
<1>1. ASSUME NEW m \in Nat, m > l, <<m, p>> \in DOMAIN T, NEW i \in l + 1 .. m
      PROVE  <<i, p>> \in DOMAIN T
  <2> DEFINE S == {d \in 0 .. m - i : <<m - d, p>> \in DOMAIN T}
  <2>1. m - i \in Nat
    BY <1>1
  <2>2. 0 \in S
    <3>1. m - 0 = m /\ 0 \in 0 .. m - i
      BY <2>1
    <3> QED
      BY <1>1, <3>1
  <2>3. ASSUME NEW d \in 1 .. m - i, d - 1 \in S PROVE d \in S
    <3>1. m - (d - 1) = (m - d) + 1 /\ m - d \in Nat /\ d \in 0 .. m - i /\ m - d > l
      BY <2>1
    <3> QED
      BY <2>3, <3>1
  <2>4. m - i \in S
    <3> HIDE DEF S
    <3> QED
      BY <2>1, <2>2, <2>3, UpTo
  <2>5. m - (m - i) = i
    OBVIOUS
  <2> QED
    BY <2>4, <2>5
<1>2. /\ DOMAIN U = {m \in DOMAIN T : m[2] = p /\ m[1] > l =>
                       \E i \in l + 1 .. m[1] : <<i, p>> \notin DOMAIN T}
      /\ \A n \in DOMAIN U : U[n] = T[n]
      /\ U = [n \in DOMAIN U |-> U[n]]
  BY DEF DeleteParents
<1> HIDE DEF U
<1>3. ASSUME NEW j \in Nat, NEW x
      PROVE  <<j, x>> \in DOMAIN U <=> <<j, x>> \in DOMAIN T /\ ~(x = p /\ j > l)
  BY <1>1, <1>2
<1>5. Typed(U)
  <2>1. DOMAIN U \subseteq Nat \X (Keys \cup {0})
    BY <1>2 DEF Typed
  <2>2. \A n \in DOMAIN U : U[n][1] = n[1]
    BY <1>2 DEF Typed
  <2>3. <<0, 0>> \in DOMAIN U
    BY <1>3 DEF Typed
  <2> QED
    BY <1>2, <2>1, <2>2, <2>3 DEF Typed
<1>6. ButFor(T, U, p)
  BY <1>2, <1>3 DEF ButFor, At
<1>8. \A j \in Nat : p \in At(U, j) <=> p \in At(T, j) /\ j <= l
  BY <1>3 DEF At
<1>9. \A j \in 0 .. l : SameLevel(T, U, j)
  BY <1>2, <1>3 DEF SameLevel, At
<1> QED
  BY <1>5, <1>6, <1>8, <1>9 DEF U

LEMMA DeleteNodeIs ==
  ASSUME NEW T, Typed(T), NEW l \in Nat, NEW p \in Keys
  PROVE  LET U == DeleteNode(T, l, p)
         IN  /\ Typed(U) /\ ButFor(T, U, p)
             /\ \A j \in Nat : p \in At(U, j) <=> p \in At(T, j) /\ j # l
<1> DEFINE U == DeleteNode(T, l, p)
<1>1. DOMAIN U = DOMAIN T \ {<<l, p>>} /\ (\A n \in DOMAIN U : U[n] = T[n])
      /\ U = [n \in DOMAIN U |-> U[n]]
  BY DEF DeleteNode
<1> HIDE DEF U
<1>2. \A j, x : <<j, x>> = <<l, p>> <=> j = l /\ x = p
  OBVIOUS
<1>3. \A j, x : <<j, x>> \in DOMAIN U <=> <<j, x>> \in DOMAIN T /\ ~(j = l /\ x = p)
  BY <1>1, <1>2
<1>4. p # 0
  BY Numbers
<1>5. Typed(U)
  <2>1. DOMAIN U \subseteq Nat \X (Keys \cup {0})
    BY <1>1 DEF Typed
  <2>2. \A n \in DOMAIN U : U[n][1] = n[1]
    BY <1>1 DEF Typed
  <2>3. <<0, 0>> \in DOMAIN U
    BY <1>3, <1>4 DEF Typed
  <2> QED
    BY <1>1, <2>1, <2>2, <2>3 DEF Typed
<1>6. ButFor(T, U, p)
  BY <1>1, <1>3 DEF ButFor, At
<1>8. \A j \in Nat : p \in At(U, j) <=> p \in At(T, j) /\ j # l
  BY <1>3 DEF At
<1> QED
  BY <1>5, <1>6, <1>8 DEF U

-----------------------------------------------------------------------------
(* The loops of createParents, updateAnchor and updateParents, and what they come
   to: there is such a list of results. *)
RaisesTo(raised, T, level, key) ==
  /\ raised[0] = [tree |-> T, level |-> level]
  /\ \A n \in 1 .. MaxLevel : raised[n] = Raised(raised[n - 1], key)
  /\ CreateParents(T, level, key) = raised[MaxLevel].tree

LEMMA RaisedSteps ==
  ASSUME NEW T, NEW level, NEW key
  PROVE  \E raised : RaisesTo(raised, T, level, key)
<1> DEFINE next(x, n) == Raised(x, key)
           Is(g, m) == g = [n \in 0 .. m |-> IF n = 0 THEN [tree |-> T, level |-> level] ELSE next(g[n - 1], n)]
           S == {m \in 0 .. MaxLevel : \E g : Is(g, m)}
<1>0. MaxLevel \in Nat
  BY WriterAssumption
<1>1. CreateParents(T, level, key) = ((CHOOSE g : Is(g, MaxLevel))[MaxLevel]).tree
  BY DEF CreateParents
<1> HIDE DEF next
<1>2. 0 \in S
  <2>1. Is([n \in 0 .. 0 |-> [tree |-> T, level |-> level]], 0)
    OBVIOUS
  <2> HIDE DEF Is
  <2> QED
    BY <1>0, <2>1
<1>3. ASSUME NEW m \in 1 .. MaxLevel, m - 1 \in S PROVE m \in S
  <2>1. PICK g : Is(g, m - 1)
    BY <1>3
  <2> DEFINE h == [n \in 0 .. m |-> IF n = 0 THEN [tree |-> T, level |-> level] ELSE next(g[n - 1], n)]
  <2>2. \A n \in 0 .. m - 1 : h[n] = g[n]
    BY <1>0, <2>1
  <2>3. \A n \in 0 .. m : n # 0 => n - 1 \in 0 .. m - 1
    BY <1>0
  <2>4. Is(h, m)
    BY <2>2, <2>3
  <2> HIDE DEF Is, h
  <2> QED
    BY <1>0, <2>4
<1>4. MaxLevel \in S
  <2> HIDE DEF S
  <2> QED
    BY <1>0, <1>2, <1>3, UpTo
<1> DEFINE all == CHOOSE g : Is(g, MaxLevel)
<1>5. Is(all, MaxLevel)
  BY <1>4
<1> HIDE DEF all
<1>6. all[0] = [tree |-> T, level |-> level] /\ \A n \in 1 .. MaxLevel : all[n] = next(all[n - 1], n)
  BY <1>0, <1>5
<1> QED
  BY <1>1, <1>6 DEF next, all, RaisesTo

AnchorsTo(anchored, T, level) ==
  /\ anchored[0] = Anchor(T, level)
  /\ \A n \in 1 .. MaxLevel : anchored[n] = Anchored(anchored[n - 1])
  /\ UpdateAnchor(T, level) =
       DeleteParents(anchored[MaxLevel].tree, anchored[MaxLevel].level, 0)

LEMMA AnchoredSteps ==
  ASSUME NEW T, NEW level
  PROVE  \E anchored : AnchorsTo(anchored, T, level)
<1> DEFINE next(x, n) == Anchored(x)
           Is(g, m) == g = [n \in 0 .. m |-> IF n = 0 THEN Anchor(T, level) ELSE next(g[n - 1], n)]
           S == {m \in 0 .. MaxLevel : \E g : Is(g, m)}
<1>0. MaxLevel \in Nat
  BY WriterAssumption
<1>1. UpdateAnchor(T, level) =
        LET top == CHOOSE g : Is(g, MaxLevel)
        IN  DeleteParents(top[MaxLevel].tree, top[MaxLevel].level, 0)
  BY DEF UpdateAnchor
<1> HIDE DEF next
<1>2. 0 \in S
  <2>1. Is([n \in 0 .. 0 |-> Anchor(T, level)], 0)
    OBVIOUS
  <2> HIDE DEF Is
  <2> QED
    BY <1>0, <2>1
<1>3. ASSUME NEW m \in 1 .. MaxLevel, m - 1 \in S PROVE m \in S
  <2>1. PICK g : Is(g, m - 1)
    BY <1>3
  <2> DEFINE h == [n \in 0 .. m |-> IF n = 0 THEN Anchor(T, level) ELSE next(g[n - 1], n)]
  <2>2. \A n \in 0 .. m - 1 : h[n] = g[n]
    BY <1>0, <2>1
  <2>3. \A n \in 0 .. m : n # 0 => n - 1 \in 0 .. m - 1
    BY <1>0
  <2>4. Is(h, m)
    BY <2>2, <2>3
  <2> HIDE DEF Is, h
  <2> QED
    BY <1>0, <2>4
<1>4. MaxLevel \in S
  <2> HIDE DEF S
  <2> QED
    BY <1>0, <1>2, <1>3, UpTo
<1> DEFINE all == CHOOSE g : Is(g, MaxLevel)
<1>5. Is(all, MaxLevel)
  BY <1>4
<1> HIDE DEF all
<1>6. all[0] = Anchor(T, level) /\ \A n \in 1 .. MaxLevel : all[n] = next(all[n - 1], n)
  BY <1>0, <1>5
<1> QED
  BY <1>1, <1>6 DEF next, all, AnchorsTo

UpdatesTo(updated, at) ==
  /\ updated[0] = at
  /\ \A n \in 1 .. MaxLevel : updated[n] = Update(updated[n - 1])
  /\ UpdateParents(at) = UpdateAnchor(updated[MaxLevel].tree, updated[MaxLevel].level)

LEMMA UpdatedSteps ==
  ASSUME NEW at
  PROVE  \E updated : UpdatesTo(updated, at)
<1> DEFINE next(x, n) == Update(x)
           Is(g, m) == g = [n \in 0 .. m |-> IF n = 0 THEN at ELSE next(g[n - 1], n)]
           S == {m \in 0 .. MaxLevel : \E g : Is(g, m)}
<1>0. MaxLevel \in Nat
  BY WriterAssumption
<1>1. UpdateParents(at) =
        LET top == CHOOSE g : Is(g, MaxLevel)
        IN  UpdateAnchor(top[MaxLevel].tree, top[MaxLevel].level)
  BY DEF UpdateParents
<1> HIDE DEF next
<1>2. 0 \in S
  <2>1. Is([n \in 0 .. 0 |-> at], 0)
    OBVIOUS
  <2> HIDE DEF Is
  <2> QED
    BY <1>0, <2>1
<1>3. ASSUME NEW m \in 1 .. MaxLevel, m - 1 \in S PROVE m \in S
  <2>1. PICK g : Is(g, m - 1)
    BY <1>3
  <2> DEFINE h == [n \in 0 .. m |-> IF n = 0 THEN at ELSE next(g[n - 1], n)]
  <2>2. \A n \in 0 .. m - 1 : h[n] = g[n]
    BY <1>0, <2>1
  <2>3. \A n \in 0 .. m : n # 0 => n - 1 \in 0 .. m - 1
    BY <1>0
  <2>4. Is(h, m)
    BY <2>2, <2>3
  <2> HIDE DEF Is, h
  <2> QED
    BY <1>0, <2>4
<1>4. MaxLevel \in S
  <2> HIDE DEF S
  <2> QED
    BY <1>0, <1>2, <1>3, UpTo
<1> DEFINE all == CHOOSE g : Is(g, MaxLevel)
<1>5. Is(all, MaxLevel)
  BY <1>4
<1> HIDE DEF all
<1>6. all[0] = at /\ \A n \in 1 .. MaxLevel : all[n] = next(all[n - 1], n)
  BY <1>0, <1>5
<1> QED
  BY <1>1, <1>6 DEF next, all, UpdatesTo

(* The tree V after createParents has come from level m up to level j. *)
RaisedFrom(V, m, p, U, j) ==
  /\ Typed(U) /\ ButFor(V, U, p) /\ j \in Nat /\ m <= j
  /\ \A l \in Nat : l <= m => SameLevel(V, U, l)
  /\ \A l \in Nat : l >= m => (p \in At(U, l) <=> l <= j)
  /\ \A l \in Nat : m <= l /\ l < j => Boundary(U, l, p)
  /\ \A l \in Nat : m < l /\ l <= j => Right(U, l, p)

LEMMA SameTwice ==
  ASSUME NEW T, NEW U, NEW V
  PROVE  /\ \A p : ButFor(T, U, p) /\ ButFor(U, V, p) => ButFor(T, V, p)
         /\ \A l : SameLevel(T, U, l) /\ SameLevel(U, V, l) => SameLevel(T, V, l)
         /\ \A l : SameLevel(T, U, l) => SameLevel(U, T, l)
         /\ \A p : ButFor(T, T, p)
         /\ \A l : SameLevel(T, T, l)
<1>1. ASSUME NEW p, ButFor(T, U, p), ButFor(U, V, p) PROVE ButFor(T, V, p)
  <2>1. ASSUME NEW l \in Nat, NEW x \in (Keys \cup {0}) \ {p}
        PROVE  (x \in At(T, l) <=> x \in At(V, l)) /\ (x \in At(T, l) => T[<<l, x>>] = V[<<l, x>>])
    <3>1. (x \in At(T, l) <=> x \in At(U, l)) /\ (x \in At(T, l) => T[<<l, x>>] = U[<<l, x>>])
      BY <1>1 DEF ButFor
    <3>2. (x \in At(U, l) <=> x \in At(V, l)) /\ (x \in At(U, l) => U[<<l, x>>] = V[<<l, x>>])
      BY <1>1 DEF ButFor
    <3> QED
      BY <3>1, <3>2
  <2> QED
    BY <2>1 DEF ButFor
<1>2. \A l : SameLevel(T, U, l) /\ SameLevel(U, V, l) => SameLevel(T, V, l)
  BY DEF SameLevel
<1>3. \A l : SameLevel(T, U, l) => SameLevel(U, T, l)
  BY DEF SameLevel
<1> QED
  BY <1>1, <1>2, <1>3 DEF ButFor, SameLevel

LEMMA RaiseOnce ==
  ASSUME NEW V, NEW m \in Nat, NEW p \in Keys, NEW U, NEW j, RaisedFrom(V, m, p, U, j),
         Boundary(U, j, p)
  PROVE  RaisedFrom(V, m, p, SetNode(U, j + 1, p, GetHash(U, j + 1, p)), j + 1)
<1> DEFINE hash == GetHash(U, j + 1, p)
           W == SetNode(U, j + 1, p, hash)
<1>1. j \in Nat /\ j + 1 \in Nat /\ m <= j + 1 /\ Typed(U) /\ p \in Nat /\ p \in Keys \cup {0}
  BY Numbers DEF RaisedFrom
<1>2. hash[1] = j + 1
  BY DEF GetHash
<1> HIDE DEF hash
<1>3. /\ Typed(W) /\ ButFor(U, W, p) /\ W[<<j + 1, p>>] = hash
      /\ \A i \in Nat : p \in At(W, i) <=> p \in At(U, i) \/ i = j + 1
      /\ \A i \in Nat \ {j + 1} : SameLevel(U, W, i)
  BY <1>1, <1>2, SetNodeIs
<1> HIDE DEF W
<1>4. ButFor(V, W, p)
  BY <1>3, SameTwice DEF RaisedFrom
<1>5. ASSUME NEW l \in Nat, l <= m PROVE SameLevel(V, W, l)
  <2>1. SameLevel(V, U, l)
    BY <1>5 DEF RaisedFrom
  <2>2. l # j + 1
    BY <1>5 DEF RaisedFrom
  <2> QED
    BY <1>3, <2>1, <2>2, SameTwice
<1>6. ASSUME NEW l \in Nat, l >= m PROVE p \in At(W, l) <=> l <= j + 1
  <2>1. p \in At(U, l) <=> l <= j
    BY <1>6 DEF RaisedFrom
  <2> QED
    BY <1>1, <1>3, <2>1
<1>7. ASSUME NEW l \in Nat, m <= l, l < j + 1 PROVE Boundary(W, l, p)
  <2>1. p \in At(U, l) /\ Boundary(U, l, p) /\ l # j + 1
    <3>1. l <= j /\ (l = j \/ l < j)
      BY <1>1, <1>7
    <3> QED
      BY <1>1, <1>7, <3>1 DEF RaisedFrom
  <2> QED
    BY <1>3, <2>1 DEF SameLevel, Boundary
<1>8. ASSUME NEW l \in Nat, m < l, l <= j + 1 PROVE Right(W, l, p)
  <2>1. SameLevel(U, W, l - 1) /\ l - 1 \in Nat
    BY <1>1, <1>3, <1>8
  <2>2. GetHash(U, l, p) = GetHash(W, l, p)
    BY <1>1, <2>1, SameBelow
  <2>3. CASE l = j + 1
    BY <1>3, <2>2, <2>3 DEF Right, hash
  <2>4. CASE l <= j
    <3>1. Right(U, l, p) /\ p \in At(U, l)
      BY <1>1, <1>8, <2>4 DEF RaisedFrom
    <3>2. W[<<l, p>>] = U[<<l, p>>]
      BY <1>1, <1>3, <2>4, <3>1 DEF SameLevel
    <3> QED
      BY <2>2, <3>1, <3>2 DEF Right
  <2> QED
    BY <1>1, <1>8, <2>3, <2>4
<1>9. RaisedFrom(V, m, p, W, j + 1)
  BY <1>1, <1>3, <1>4, <1>5, <1>6, <1>7, <1>8 DEF RaisedFrom
<1> QED
  BY <1>9 DEF W, hash

(* createParents gives the node a parent above each boundary that it makes. *)
LEMMA CreateParentsIs ==
  ASSUME NEW V, Typed(V), NEW m \in Nat, NEW p \in Keys,
         \A l \in Nat : l >= m => (p \in At(V, l) <=> l = m)
  PROVE  \E j : RaisedFrom(V, m, p, CreateParents(V, m, p), j)
                  /\ ~Boundary(CreateParents(V, m, p), j, p)
<1>1. PICK raised : RaisesTo(raised, V, m, p)
  BY RaisedSteps
<1>2. MaxLevel \in Nat
  BY WriterAssumption
<1> DEFINE tree(n) == raised[n].tree
           level(n) == raised[n].level
           S == {n \in 0 .. MaxLevel : /\ RaisedFrom(V, m, p, tree(n), level(n))
                                       /\ level(n) = m + n \/ ~Boundary(tree(n), level(n), p)}
<1>3. 0 \in S
  <2>1. tree(0) = V /\ level(0) = m
    BY <1>1 DEF RaisesTo
  <2>2. RaisedFrom(V, m, p, V, m)
    BY SameTwice DEF RaisedFrom
  <2> HIDE DEF tree, level
  <2> QED
    BY <1>2, <2>1, <2>2
<1>4. ASSUME NEW n \in 1 .. MaxLevel, n - 1 \in S PROVE n \in S
  <2>1. raised[n] = Raised(raised[n - 1], p)
    BY <1>1 DEF RaisesTo
  <2>2. RaisedFrom(V, m, p, tree(n - 1), level(n - 1))
        /\ (level(n - 1) = m + (n - 1) \/ ~Boundary(tree(n - 1), level(n - 1), p))
    BY <1>4
  <2>3. CASE Boundary(tree(n - 1), level(n - 1), p)
    <3>1. raised[n] = [tree |-> SetNode(tree(n - 1), level(n - 1) + 1, p,
                                        GetHash(tree(n - 1), level(n - 1) + 1, p)),
                       level |-> level(n - 1) + 1]
      BY <2>1, <2>3 DEF Raised, Boundary
    <3>2. tree(n) = SetNode(tree(n - 1), level(n - 1) + 1, p,
                            GetHash(tree(n - 1), level(n - 1) + 1, p))
          /\ level(n) = level(n - 1) + 1
      BY <3>1
    <3> HIDE DEF tree, level
    <3>3. RaisedFrom(V, m, p, tree(n), level(n))
      BY <2>2, <2>3, <3>2, RaiseOnce
    <3>4. level(n) = m + n
      BY <2>2, <2>3, <3>2
    <3> QED
      BY <3>3, <3>4
  <2>4. CASE ~Boundary(tree(n - 1), level(n - 1), p)
    <3>1. raised[n] = raised[n - 1]
      BY <2>1, <2>4 DEF Raised, Boundary
    <3>2. tree(n) = tree(n - 1) /\ level(n) = level(n - 1)
      BY <3>1
    <3> HIDE DEF tree, level
    <3> QED
      BY <2>2, <2>4, <3>2
  <2> QED
    BY <2>3, <2>4
<1>5. MaxLevel \in S
  <2> HIDE DEF S
  <2> QED
    BY <1>2, <1>3, <1>4, UpTo
<1>6. tree(MaxLevel) = CreateParents(V, m, p)
  BY <1>1 DEF RaisesTo
<1> HIDE DEF tree, level
<1>7. RaisedFrom(V, m, p, tree(MaxLevel), level(MaxLevel))
      /\ (level(MaxLevel) = m + MaxLevel \/ ~Boundary(tree(MaxLevel), level(MaxLevel), p))
  BY <1>5
<1>8. ~Boundary(tree(MaxLevel), level(MaxLevel), p)
  <2>1. SUFFICES ASSUME level(MaxLevel) = m + MaxLevel, Boundary(tree(MaxLevel), level(MaxLevel), p)
                 PROVE  FALSE
    BY <1>7
  <2>2. p \in At(tree(MaxLevel), level(MaxLevel)) /\ Typed(tree(MaxLevel)) /\ level(MaxLevel) \in Nat
    BY <1>7 DEF RaisedFrom
  <2>3. level(MaxLevel) < MaxLevel
    BY <2>1, <2>2, BoundaryLevel
  <2> QED
    BY <1>2, <2>1, <2>3
<1> QED
  BY <1>6, <1>7, <1>8

-----------------------------------------------------------------------------
(* What an update of node p of level m may do, for q to be updated next: the
   levels below and the other keys stay, and p is in the levels that it should
   be in; either p goes on as before above, or it falls to q, and what is left
   of it above is right. *)
Carried(T, U, m, p, q) ==
  /\ Typed(U) /\ ButFor(T, U, p)
  /\ \A l \in Nat : l < m => SameLevel(T, U, l)
  /\ \A l \in Nat : l >= m => (p \in At(U, l + 1) <=> p \in At(U, l) /\ Boundary(U, l, p))
  /\ m >= 1 => p \in At(U, m) /\ Right(U, m, p)
  /\ \/ /\ q = p /\ p \in At(U, m + 1)
        /\ \A l \in Nat : l > m => (p \in At(U, l) <=> p \in At(T, l))
     \/ /\ q \in Nat /\ q < p /\ (q = 0 \/ q \in Others(T, m + 1))
        /\ \A y \in Others(T, m + 1) : y < p => y <= q
        /\ \A l \in Nat : l > m /\ p \in At(U, l) => Right(U, l, p)

LEMMA CarriedShape ==
  ASSUME NEW T, NEW m \in Nat, NEW p \in Keys, NEW U, NEW q,
         Climbing(T, m, p), Carried(T, U, m, p, q)
  PROVE  Shaped(U)
<1>1. p \in Nat /\ p # 0 /\ ButFor(T, U, p) /\ Shaped(T)
  BY Numbers DEF Carried, Climbing
<1>2. ASSUME NEW l \in Nat, NEW k \in Keys
      PROVE  k \in Others(U, l + 1) <=> k \in Others(U, l) /\ Boundary(U, l, k)
  <2>1. /\ k \in Others(U, l + 1) <=> k \in At(U, l + 1)
        /\ k \in Others(U, l) <=> k \in At(U, l)
        /\ k \in Others(T, l + 1) <=> k \in At(T, l + 1)
        /\ k \in Others(T, l) <=> k \in At(T, l)
    BY Numbers
  <2>2. CASE k = p
    <3>1. CASE l >= m
      BY <2>1, <2>2, <3>1 DEF Carried
    <3>2. CASE l < m
      <4>1. k \in Others(T, l + 1) <=> k \in Others(T, l) /\ Boundary(T, l, k)
        BY <1>1 DEF Shaped, Stacked
      <4>2. SameLevel(T, U, l)
        BY <3>2 DEF Carried
      <4>3. k \in At(T, l + 1) <=> k \in At(U, l + 1)
        <5>1. CASE l + 1 < m
          <6>1. SameLevel(T, U, l + 1)
            BY <5>1 DEF Carried
          <6> QED
            BY <6>1 DEF SameLevel
        <5>2. CASE l + 1 = m
          <6>1. k \in At(U, m)
            BY <2>2, <5>2 DEF Carried
          <6>2. k \in At(T, m)
            BY <1>1, <2>2, <5>2, Numbers DEF Climbing
          <6> QED
            BY <5>2, <6>1, <6>2
        <5> QED
          BY <3>2, <5>1, <5>2
      <4> QED
        BY <2>1, <4>1, <4>2, <4>3 DEF SameLevel, Boundary
    <3> QED
      BY <3>1, <3>2
  <2>3. CASE k # p
    <3>1. k \in Others(T, l + 1) <=> k \in Others(T, l) /\ Boundary(T, l, k)
      BY <1>1 DEF Shaped, Stacked
    <3>2. (k \in At(T, l) <=> k \in At(U, l)) /\ (k \in At(T, l) => T[<<l, k>>] = U[<<l, k>>])
      BY <1>1, <2>3 DEF ButFor
    <3>3. k \in At(T, l + 1) <=> k \in At(U, l + 1)
      <4>1. l + 1 \in Nat /\ k \in (Keys \cup {0}) \ {p}
        BY <2>3
      <4> QED
        BY <1>1, <4>1 DEF ButFor
    <3> QED
      BY <2>1, <3>1, <3>2, <3>3 DEF Boundary
  <2> QED
    BY <2>2, <2>3
<1>3. Stacked(U)
  <2>1. ASSUME NEW l \in Nat
        PROVE  Others(U, l + 1) = {k \in Others(U, l) : Boundary(U, l, k)}
    <3>1. Others(U, l + 1) \subseteq Keys /\ Others(U, l) \subseteq Keys
      BY Numbers
    <3> QED
      BY <1>2, <3>1
  <2> QED
    BY <2>1 DEF Stacked
<1>4. Contiguous(U)
  <2>1. \A l \in Nat : <<l, 0>> \in DOMAIN U <=> <<l, 0>> \in DOMAIN T
    BY <1>1 DEF ButFor, At
  <2>2. \A l \in Nat : l + 1 \in Nat
    OBVIOUS
  <2> QED
    BY <1>1, <2>1, <2>2 DEF Shaped, Contiguous
<1> QED
  BY <1>3, <1>4 DEF Shaped, Carried

LEMMA CarriedRight ==
  ASSUME NEW T, NEW m \in Nat, NEW p \in Keys, NEW U, NEW q,
         Climbing(T, m, p), Carried(T, U, m, p, q),
         NEW l \in Nat \ {0}, NEW x \in At(U, l)
  PROVE  Right(U, l, x) \/ (l >= m + 1 /\ IsLast(U, l, x, q))
<1>1. /\ p \in Nat /\ p # 0 /\ ButFor(T, U, p) /\ Stacked(T) /\ Stacked(U)
      /\ x \in Nat /\ x \in Keys \cup {0} /\ l - 1 \in Nat
  <2>1. x \in Keys \cup {0} /\ x \in Nat /\ p \in Nat /\ p # 0
    BY Numbers
  <2>2. Shaped(U)
    BY CarriedShape
  <2> QED
    BY <2>1, <2>2 DEF Carried, Climbing, Shaped
<1>2. ASSUME l <= m, x \in At(T, l), T[<<l, x>>] = U[<<l, x>>], Right(T, l, x)
      PROVE  Right(U, l, x)
  <2>1. SameLevel(T, U, l - 1)
    BY <1>1, <1>2 DEF Carried
  <2>2. GetHash(T, l, x) = GetHash(U, l, x)
    BY <1>1, <2>1, SameBelow
  <2> QED
    BY <1>2, <2>2 DEF Right
<1>3. CASE x = p
  <2>1. CASE l = m
    BY <1>3, <2>1 DEF Carried
  <2>2. CASE l < m
    <3>1. SameLevel(T, U, l)
      BY <2>2 DEF Carried
    <3>2. x \in At(T, l) /\ T[<<l, x>>] = U[<<l, x>>]
      BY <3>1 DEF SameLevel
    <3>3. Right(T, l, x)
      BY <2>2, <3>2 DEF Climbing
    <3> QED
      BY <1>2, <2>2, <3>2, <3>3
  <2>3. CASE l > m
    <3>1. CASE q = p
      BY <1>1, <1>3, <2>3, <3>1 DEF IsLast
    <3>2. CASE q # p
      BY <1>3, <2>3, <3>2 DEF Carried
    <3> QED
      BY <3>1, <3>2
  <2> QED
    BY <2>1, <2>2, <2>3
<1>4. CASE x # p
  <2>1. x \in At(T, l) /\ T[<<l, x>>] = U[<<l, x>>]
    BY <1>1, <1>4 DEF ButFor
  <2>2. Right(T, l, x) \/ (l >= m /\ IsLast(T, l, x, p))
    BY <2>1 DEF Climbing
  <2>3. CASE l <= m
    <3>1. Right(T, l, x)
      <4>1. SUFFICES ASSUME l = m, IsLast(T, l, x, p) PROVE FALSE
        BY <2>2, <2>3
      <4>2. p \in Others(T, m)
        BY <1>1, <4>1 DEF Climbing
      <4>3. p <= x /\ x <= p
        BY <1>1, <4>1, <4>2 DEF IsLast
      <4> QED
        BY <1>1, <1>4, <4>3
    <3> QED
      BY <1>2, <2>1, <2>3, <3>1
  <2>4. CASE l > m
    <3>1. CASE x > p
      <4>1. Right(T, l, x)
        BY <1>1, <2>2, <3>1 DEF IsLast
      <4>2. GetHash(T, l, x) = GetHash(U, l, x)
        BY <1>1, <3>1, Elsewhere
      <4> QED
        BY <2>1, <4>1, <4>2 DEF Right
    <3>2. CASE x < p /\ ~IsLast(U, l, x, q)
      <4>0. q \in Nat /\ q <= p
        BY <1>1 DEF Carried
      <4>1. x <= q
        <5>1. SUFFICES ASSUME x > q PROVE FALSE
          BY <1>1, <4>0
        <5>2. x \in Others(T, l)
          BY <1>1, <2>1, <4>0, <5>1 DEF Others
        <5>3. x \in Others(T, m + 1)
          <6>1. CASE l = m + 1
            BY <5>2, <6>1
          <6>2. CASE l # m + 1
            <7>1. m + 1 \in Nat /\ l \in Nat /\ m + 1 < l
              BY <2>4, <6>2
            <7> QED
              BY <1>1, <5>2, <7>1, Standing
          <6> QED
            BY <6>1, <6>2
        <5> QED
          BY <1>1, <3>2, <4>0, <5>1, <5>3 DEF Carried
      <4>2. PICK y \in Others(U, l) : y <= q /\ ~(y <= x)
        BY <3>2, <4>1 DEF IsLast
      <4>3. y \in Keys /\ y \in Nat /\ y \in At(U, l) /\ y <= p
        <5>1. y \in Keys /\ y \in At(U, l)
          BY Numbers
        <5>2. y \in Nat
          BY <5>1, Numbers
        <5> QED
          BY <1>1, <4>0, <4>2, <5>1, <5>2
      <4>4. y \in Others(T, l)
        <5>1. y \in At(T, l)
          <6>1. CASE y = p
            BY <1>1, <2>4, <4>0, <4>2, <4>3, <6>1 DEF Carried
          <6>2. CASE y # p
            BY <1>1, <4>3, <6>2 DEF ButFor
          <6> QED
            BY <6>1, <6>2
        <5> QED
          BY <4>3, <5>1, Numbers
      <4>5. Right(T, l, x)
        BY <1>1, <2>2, <4>2, <4>3, <4>4 DEF IsLast
      <4>6. y \in At(T, l - 1) /\ Boundary(T, l - 1, y) /\ y \in At(U, l - 1) /\ Boundary(U, l - 1, y)
        <5>1. l - 1 < l /\ l \in Nat
          OBVIOUS
        <5>2. y \in Others(T, l - 1) /\ Boundary(T, l - 1, y)
          BY <1>1, <4>4, <5>1, Standing
        <5>3. y \in Others(U, l - 1) /\ Boundary(U, l - 1, y)
          BY <1>1, <5>1, Standing
        <5> QED
          BY <5>2, <5>3, Numbers
      <4>7. x < y
        BY <1>1, <4>2, <4>3
      <4>8. GetHash(T, l, x) = GetHash(U, l, x)
        BY <1>1, <4>3, <4>6, <4>7, Elsewhere
      <4> QED
        BY <2>1, <4>5, <4>8 DEF Right
    <3> QED
      BY <1>1, <1>4, <2>4, <3>1, <3>2
  <2> QED
    BY <2>3, <2>4
<1> QED
  BY <1>3, <1>4

LEMMA CarriedUp ==
  ASSUME NEW T, NEW m \in Nat, NEW p \in Keys, NEW U, NEW q,
         Climbing(T, m, p), Carried(T, U, m, p, q)
  PROVE  Climbing(U, m + 1, q)
<1>1. /\ p \in Nat /\ p # 0 /\ ButFor(T, U, p) /\ q \in Nat /\ q <= p
      /\ \A l \in Nat : <<l, 0>> \in DOMAIN U <=> <<l, 0>> \in DOMAIN T
  <2>1. p \in Nat /\ p # 0 /\ ButFor(T, U, p)
    BY Numbers DEF Carried
  <2>2. q \in Nat /\ q <= p
    BY <2>1 DEF Carried
  <2>3. \A l \in Nat : <<l, 0>> \in DOMAIN U <=> <<l, 0>> \in DOMAIN T
    BY <2>1 DEF ButFor, At
  <2> QED
    BY <2>1, <2>2, <2>3
<1>2. m >= 1 => p \in Others(T, m) /\ p \in Others(U, m) /\ <<m, 0>> \in DOMAIN T
  <2>1. SUFFICES ASSUME m >= 1
                 PROVE  p \in Others(T, m) /\ p \in Others(U, m) /\ <<m, 0>> \in DOMAIN T
    OBVIOUS
  <2>2. p \in Others(T, m)
    BY <1>1, <2>1 DEF Climbing
  <2>3. p \in Others(U, m)
    BY <2>1, Numbers DEF Carried
  <2>4. <<m, 0>> \in DOMAIN T
    <3>1. m \in Nat \ {0} /\ p <= p
      BY <1>1, <2>1
    <3> QED
      BY <2>2, <3>1 DEF Climbing
  <2> QED
    BY <2>2, <2>3, <2>4
<1>3. ASSUME NEW l \in Nat \ {0}, NEW x \in Others(U, l), x <= q PROVE <<l, 0>> \in DOMAIN U
  <2>1. x \in Keys /\ x \in At(U, l)
    BY Numbers
  <2>2. x \in Nat
    BY <2>1, Numbers
  <2>3. x \in At(T, l)
    <3>1. CASE x # p
      BY <1>1, <2>1, <3>1 DEF ButFor
    <3>2. CASE x = p /\ l > m
      BY <1>1, <1>3, <2>1, <3>2 DEF Carried
    <3>3. CASE x = p /\ l < m
      BY <2>1, <3>3 DEF Carried, SameLevel
    <3>4. CASE x = p /\ l = m
      BY <1>2, <3>4, Numbers
    <3> QED
      BY <3>1, <3>2, <3>3, <3>4
  <2>4. x \in Others(T, l) /\ x <= p
    BY <1>1, <1>3, <2>1, <2>2, <2>3, Numbers
  <2> QED
    BY <1>1, <2>4 DEF Climbing
<1>4. <<m, 0>> \in DOMAIN U
  <2>1. CASE m = 0
    BY <2>1 DEF Carried, Typed
  <2>2. CASE m # 0
    BY <1>1, <1>2, <2>2
  <2> QED
    BY <2>1, <2>2
<1>5. q = 0 \/ q \in Others(U, m + 1)
  <2>1. CASE q = p
    BY <1>1, <2>1, Numbers DEF Carried
  <2>2. CASE q < p /\ q # 0
    <3>1. q \in Others(T, m + 1)
      BY <1>1, <2>2 DEF Carried
    <3>2. q \in Keys /\ q \in At(T, m + 1) /\ m + 1 \in Nat
      BY <3>1, Numbers
    <3>3. q \in At(U, m + 1)
      <4>1. q \in (Keys \cup {0}) \ {p}
        BY <1>1, <2>2, <3>2
      <4> QED
        BY <1>1, <3>2, <4>1 DEF ButFor
    <3> QED
      BY <3>2, <3>3, Numbers
  <2> QED
    BY <1>1, <2>1, <2>2
<1>6. \A l \in Nat \ {0} : \A x \in At(U, l) : Right(U, l, x) \/ (l >= m + 1 /\ IsLast(U, l, x, q))
  BY CarriedRight
<1>7. Shaped(U)
  BY CarriedShape
<1>8. m + 1 >= 2 => Others(U, m) # {}
  BY <1>2
<1> QED
  <2>1. m + 1 - 1 = m
    OBVIOUS
  <2> QED
    BY <1>3, <1>4, <1>5, <1>6, <1>7, <1>8, <2>1 DEF Climbing

-----------------------------------------------------------------------------
(* An update of a node that is no boundary hands on to its first sibling, which
   has an anchor to fall back on. *)
LEMMA ClimbingAnchor ==
  ASSUME NEW T, NEW m \in Nat, NEW p \in Keys, Climbing(T, m, p)
  PROVE  <<m, 0>> \in DOMAIN T
<1>1. CASE m = 0
  BY <1>1 DEF Climbing, Shaped, Typed
<1>2. CASE m # 0
  <2>1. p \in Nat /\ p # 0
    BY Numbers
  <2>2. p \in Others(T, m) /\ m \in Nat \ {0} /\ p <= p
    BY <1>2, <2>1 DEF Climbing
  <2> QED
    BY <2>2 DEF Climbing
<1> QED
  BY <1>1, <1>2

(* A node that is no boundary is in no level above. *)
LEMMA NoneAbove ==
  ASSUME NEW T, Stacked(T), NEW m \in Nat, NEW p \in Keys, ~(p \in At(T, m) /\ Boundary(T, m, p))
  PROVE  \A l \in Nat : l > m => p \notin At(T, l)
<1> SUFFICES ASSUME NEW l \in Nat, l > m, p \in At(T, l) PROVE FALSE
  OBVIOUS
<1>1. p \in Others(T, l)
  BY Numbers
<1>2. p \in Others(T, m) /\ Boundary(T, m, p)
  BY <1>1, Standing
<1> QED
  BY <1>2, Numbers

Placed(U, m, p, hash) == p \in At(U, m) /\ U[<<m, p>>] = hash

LEMMA ReplaceCarries ==
  ASSUME NEW T, NEW m \in Nat, NEW p \in Keys, Climbing(T, m, p),
         NEW hash, hash[1] = m, m >= 1 => hash = GetHash(T, m, p)
  PROVE  LET at == Replace(T, m, p, hash)
         IN  /\ Carried(T, at.tree, m, p, at.key) /\ at.level = m + 1
             /\ Placed(at.tree, m, p, hash)
<1> DEFINE P == SetNode(T, m, p, hash)
           was == p \in At(T, m) /\ IsBoundary(T[<<m, p>>])
           at == Replace(T, m, p, hash)
           Stays(U) == ButFor(T, U, p) /\ \A l \in Nat : l < m => SameLevel(T, U, l)
<1>1. p \in Nat /\ p # 0 /\ p \in Keys \cup {0}
  BY Numbers
<1>2. Typed(T) /\ Stacked(T) /\ <<m, 0>> \in DOMAIN T
  BY ClimbingAnchor DEF Climbing, Shaped
<1>3. /\ Typed(P) /\ ButFor(T, P, p) /\ P[<<m, p>>] = hash
      /\ \A j \in Nat : p \in At(P, j) <=> p \in At(T, j) \/ j = m
      /\ \A j \in Nat \ {m} : SameLevel(T, P, j)
  BY <1>1, <1>2, SetNodeIs
<1>4. \A l \in Nat : p \in At(T, l + 1) <=> p \in At(T, l) /\ Boundary(T, l, p)
  <2>1. ASSUME NEW l \in Nat PROVE p \in At(T, l + 1) <=> p \in At(T, l) /\ Boundary(T, l, p)
    <3>1. p \in Others(T, l + 1) <=> p \in Others(T, l) /\ Boundary(T, l, p)
      BY <1>2 DEF Stacked
    <3> QED
      BY <3>1, Numbers
  <2> QED
    BY <2>1
<1>5. at = IF was THEN ReplaceBoundary(T, m, p, hash)
           ELSE Parent(IF IsBoundary(hash) THEN CreateParents(P, m, p) ELSE P, m,
                       FirstSibling(T, m, p))
  BY DEF Replace
<1>6. \A U, q : Parent(U, m, q).tree = U /\ Parent(U, m, q).level = m + 1 /\ Parent(U, m, q).key = q
  BY DEF Parent
<1> HIDE DEF P, at
<1>7. ASSUME NEW U, ButFor(P, U, p), \A l \in Nat : l <= m => SameLevel(P, U, l)
      PROVE  /\ p \in At(U, m) /\ U[<<m, p>>] = hash /\ Stays(U)
             /\ m >= 1 => Right(U, m, p)
             /\ Boundary(U, m, p) <=> IsBoundary(hash)
  <2>1. p \in At(U, m) /\ U[<<m, p>>] = hash
    BY <1>3, <1>7 DEF SameLevel
  <2>2. ASSUME NEW l \in Nat, l < m PROVE SameLevel(T, U, l)
    <3>1. SameLevel(T, P, l) /\ SameLevel(P, U, l)
      BY <1>3, <1>7, <2>2
    <3> QED
      BY <3>1, SameTwice
  <2>3. ButFor(T, U, p)
    BY <1>3, <1>7, SameTwice
  <2>4. ASSUME m >= 1 PROVE Right(U, m, p)
    <3>1. SameLevel(T, U, m - 1)
      BY <2>2, <2>4
    <3>2. GetHash(T, m, p) = GetHash(U, m, p)
      BY <1>1, <3>1, SameBelow
    <3> QED
      BY <2>1, <2>4, <3>2 DEF Right
  <2>5. Boundary(U, m, p) <=> IsBoundary(hash)
    BY <2>1 DEF Boundary
  <2> QED
    BY <2>1, <2>2, <2>3, <2>4, <2>5
<1>8. ButFor(P, P, p) /\ \A l \in Nat : l <= m => SameLevel(P, P, l)
  BY SameTwice
<1>9. /\ p \in At(P, m) /\ P[<<m, p>>] = hash /\ Stays(P)
      /\ m >= 1 => Right(P, m, p)
      /\ Boundary(P, m, p) <=> IsBoundary(hash)
  BY <1>7, <1>8
<1>10. \A U : Stays(U) => <<m, 0>> \in DOMAIN U
  BY <1>1, <1>2 DEF ButFor, At
<1> HIDE DEF Stays
<1>11. \A U, q : Carried(T, U, m, p, q) <=>
         /\ Typed(U) /\ Stays(U)
         /\ \A l \in Nat : l >= m => (p \in At(U, l + 1) <=> p \in At(U, l) /\ Boundary(U, l, p))
         /\ m >= 1 => p \in At(U, m) /\ Right(U, m, p)
         /\ \/ /\ q = p /\ p \in At(U, m + 1)
               /\ \A l \in Nat : l > m => (p \in At(U, l) <=> p \in At(T, l))
            \/ /\ q \in Nat /\ q < p /\ (q = 0 \/ q \in Others(T, m + 1))
               /\ \A y \in Others(T, m + 1) : y < p => y <= q
               /\ \A l \in Nat : l > m /\ p \in At(U, l) => Right(U, l, p)
  BY DEF Carried, Stays
<1>12. CASE was /\ IsBoundary(hash)
  <2>1. at = Parent(P, m, p)
    BY <1>5, <1>12 DEF ReplaceBoundary, P
  <2>2. \A l \in Nat : l >= m => (p \in At(P, l + 1) <=> p \in At(P, l) /\ Boundary(P, l, p))
    <3>1. ASSUME NEW l \in Nat, l > m
          PROVE  p \in At(P, l + 1) <=> p \in At(P, l) /\ Boundary(P, l, p)
      <4>1. SameLevel(T, P, l) /\ SameLevel(T, P, l + 1)
        BY <1>3, <3>1
      <4> QED
        BY <1>4, <4>1 DEF SameLevel, Boundary
    <3>2. p \in At(P, m + 1) <=> p \in At(P, m) /\ Boundary(P, m, p)
      BY <1>3, <1>4, <1>9, <1>12 DEF Boundary
    <3> QED
      BY <3>1, <3>2
  <2>3. p \in At(P, m + 1)
    BY <1>9, <1>12, <2>2
  <2>4. \A l \in Nat : l > m => (p \in At(P, l) <=> p \in At(T, l))
    BY <1>3
  <2>5. Carried(T, P, m, p, p)
    BY <1>3, <1>9, <1>11, <2>2, <2>3, <2>4
  <2> QED
    BY <1>6, <1>9, <2>1, <2>5 DEF at, Placed
<1>13. CASE was /\ ~IsBoundary(hash)
  <2> DEFINE U == DeleteParents(P, m, p)
  <2>1. at = Parent(U, m, FirstSibling(U, m, p))
    BY <1>5, <1>13 DEF ReplaceBoundary, P
  <2>2. \A j \in Nat : j > m /\ <<j + 1, p>> \in DOMAIN P => <<j, p>> \in DOMAIN P
    <3>1. ASSUME NEW j \in Nat, j > m, <<j + 1, p>> \in DOMAIN P PROVE <<j, p>> \in DOMAIN P
      <4>1. p \in At(P, j + 1)
        BY <1>1, <3>1 DEF At
      <4>2. p \in At(T, j)
        BY <1>3, <1>4, <3>1, <4>1
      <4>3. p \in At(P, j)
        BY <1>3, <4>2
      <4> QED
        BY <4>3 DEF At
    <3> QED
      BY <3>1
  <2>3. /\ Typed(U) /\ ButFor(P, U, p)
        /\ \A j \in Nat : p \in At(U, j) <=> p \in At(P, j) /\ j <= m
        /\ \A j \in 0 .. m : SameLevel(P, U, j)
    BY <1>1, <1>3, <2>2, DeleteParentsIs
  <2> HIDE DEF U
  <2>4. \A l \in Nat : l <= m => SameLevel(P, U, l)
    BY <2>3
  <2>5. /\ p \in At(U, m) /\ U[<<m, p>>] = hash /\ Stays(U)
        /\ m >= 1 => Right(U, m, p)
        /\ ~Boundary(U, m, p)
    BY <1>7, <1>13, <2>3, <2>4
  <2>6. \A l \in Nat : l >= m => (p \in At(U, l + 1) <=> p \in At(U, l) /\ Boundary(U, l, p))
    <3>1. ASSUME NEW l \in Nat, l >= m
          PROVE  p \in At(U, l + 1) <=> p \in At(U, l) /\ Boundary(U, l, p)
      <4>1. p \notin At(U, l + 1) /\ (p \in At(U, l) => l = m)
        BY <2>3, <3>1
      <4> QED
        BY <2>5, <4>1
    <3> QED
      BY <3>1
  <2> DEFINE q == FirstSibling(U, m, p)
  <2>7. /\ q \in Nat /\ q < p /\ (q = 0 \/ q \in Others(T, m + 1))
        /\ \A y \in Others(T, m + 1) : y < p => y <= q
    BY <1>2, <1>10, <2>5, SiblingFound DEF Stays
  <2> HIDE DEF q
  <2>8. \A l \in Nat : l > m /\ p \in At(U, l) => Right(U, l, p)
    BY <2>3
  <2>9. Carried(T, U, m, p, q)
    BY <1>11, <2>3, <2>5, <2>6, <2>7, <2>8
  <2> QED
    BY <1>6, <2>1, <2>5, <2>9 DEF at, q, Placed
<1>14. ASSUME ~was
       PROVE  LET q == FirstSibling(T, m, p)
              IN  /\ q \in Nat /\ q < p /\ (q = 0 \/ q \in Others(T, m + 1))
                  /\ \A y \in Others(T, m + 1) : y < p => y <= q
                  /\ \A l \in Nat : l > m => p \notin At(T, l)
  <2>1. ~(p \in At(T, m) /\ Boundary(T, m, p)) /\ ButFor(T, T, p)
    BY <1>14, SameTwice DEF Boundary
  <2>2. \A l \in Nat : l > m => p \notin At(T, l)
    BY <1>2, <2>1, NoneAbove
  <2> QED
    BY <1>2, <2>1, <2>2, SiblingFound
<1>15. CASE ~was /\ IsBoundary(hash)
  <2> DEFINE U == CreateParents(P, m, p)
             q == FirstSibling(T, m, p)
  <2>1. at = Parent(U, m, q)
    BY <1>5, <1>15
  <2>2. /\ q \in Nat /\ q < p /\ (q = 0 \/ q \in Others(T, m + 1))
        /\ \A y \in Others(T, m + 1) : y < p => y <= q
        /\ \A l \in Nat : l > m => p \notin At(T, l)
    BY <1>14, <1>15
  <2>3. \A l \in Nat : l >= m => (p \in At(P, l) <=> l = m)
    BY <1>3, <2>2
  <2>4. PICK j : RaisedFrom(P, m, p, U, j) /\ ~Boundary(U, j, p)
    BY <1>3, <2>3, CreateParentsIs
  <2> HIDE DEF U, q
  <2>5. Typed(U) /\ ButFor(P, U, p) /\ j \in Nat /\ m <= j
        /\ \A l \in Nat : l <= m => SameLevel(P, U, l)
    BY <2>4 DEF RaisedFrom
  <2>6. /\ p \in At(U, m) /\ U[<<m, p>>] = hash /\ Stays(U)
        /\ m >= 1 => Right(U, m, p)
    BY <1>7, <2>5
  <2>7. \A l \in Nat : l >= m => (p \in At(U, l + 1) <=> p \in At(U, l) /\ Boundary(U, l, p))
    <3>1. ASSUME NEW l \in Nat, l >= m
          PROVE  p \in At(U, l + 1) <=> p \in At(U, l) /\ Boundary(U, l, p)
      <4>1. p \in At(U, l + 1) <=> l + 1 <= j
        BY <2>4, <3>1 DEF RaisedFrom
      <4>2. p \in At(U, l) <=> l <= j
        BY <2>4, <3>1 DEF RaisedFrom
      <4>3. l < j => Boundary(U, l, p)
        BY <2>4, <3>1 DEF RaisedFrom
      <4>4. l <= j <=> l < j \/ l = j
        BY <2>5
      <4>5. l + 1 <= j <=> l < j
        BY <2>5
      <4> QED
        BY <2>4, <2>5, <4>1, <4>2, <4>3, <4>4, <4>5
    <3> QED
      BY <3>1
  <2>8. \A l \in Nat : l > m /\ p \in At(U, l) => Right(U, l, p)
    BY <2>4 DEF RaisedFrom
  <2>9. Carried(T, U, m, p, q)
    BY <1>11, <2>2, <2>5, <2>6, <2>7, <2>8
  <2> QED
    BY <1>6, <2>1, <2>6, <2>9 DEF at, Placed
<1>16. CASE ~was /\ ~IsBoundary(hash)
  <2> DEFINE q == FirstSibling(T, m, p)
  <2>1. at = Parent(P, m, q)
    BY <1>5, <1>16
  <2>2. /\ q \in Nat /\ q < p /\ (q = 0 \/ q \in Others(T, m + 1))
        /\ \A y \in Others(T, m + 1) : y < p => y <= q
        /\ \A l \in Nat : l > m => p \notin At(T, l)
    BY <1>14, <1>16
  <2> HIDE DEF q
  <2>3. \A l \in Nat : l > m => p \notin At(P, l)
    BY <1>3, <2>2
  <2>4. \A l \in Nat : l >= m => (p \in At(P, l + 1) <=> p \in At(P, l) /\ Boundary(P, l, p))
    <3>1. ASSUME NEW l \in Nat, l >= m
          PROVE  p \in At(P, l + 1) <=> p \in At(P, l) /\ Boundary(P, l, p)
      <4>1. p \notin At(P, l + 1) /\ (p \in At(P, l) => l = m)
        BY <2>3, <3>1
      <4> QED
        BY <1>9, <1>16, <4>1
    <3> QED
      BY <3>1
  <2>5. Carried(T, P, m, p, q)
    BY <1>3, <1>9, <1>11, <2>2, <2>3, <2>4
  <2> QED
    BY <1>6, <1>9, <2>1, <2>5 DEF at, Placed
<1> QED
  BY <1>12, <1>13, <1>15, <1>16

LEMMA DeleteCarries ==
  ASSUME NEW T, NEW p \in Keys, Climbing(T, 0, p)
  PROVE  LET merged == IF IsBoundary(T[<<0, p>>]) THEN DeleteParents(T, 0, p) ELSE T
             U == DeleteNode(merged, 0, p)
         IN  Carried(T, U, 0, p, FirstSibling(U, 0, p)) /\ p \notin At(U, 0)
<1> DEFINE merged == IF IsBoundary(T[<<0, p>>]) THEN DeleteParents(T, 0, p) ELSE T
           U == DeleteNode(merged, 0, p)
<1>1. /\ p \in Nat /\ p # 0 /\ p \in Keys \cup {0}
      /\ Typed(T) /\ Stacked(T)
  BY Numbers DEF Climbing, Shaped
<1>2. /\ Typed(merged) /\ ButFor(T, merged, p)
      /\ \A j \in Nat : j > 0 => p \notin At(merged, j)
  <2>1. CASE IsBoundary(T[<<0, p>>])
    <3>1. \A j \in Nat : j > 0 /\ <<j + 1, p>> \in DOMAIN T => <<j, p>> \in DOMAIN T
      <4>1. ASSUME NEW j \in Nat, <<j + 1, p>> \in DOMAIN T PROVE <<j, p>> \in DOMAIN T
        <5>1. p \in Others(T, j + 1)
          BY <1>1, <4>1 DEF Others, At
        <5>2. p \in Others(T, j)
          BY <1>1, <5>1 DEF Stacked
        <5> QED
          BY <5>2 DEF Others, At
      <4> QED
        BY <4>1
    <3>2. 0 \in Nat
      OBVIOUS
    <3>3. /\ Typed(DeleteParents(T, 0, p)) /\ ButFor(T, DeleteParents(T, 0, p), p)
          /\ \A j \in Nat : p \in At(DeleteParents(T, 0, p), j) <=> p \in At(T, j) /\ j <= 0
      BY <1>1, <3>1, <3>2, DeleteParentsIs
    <3> QED
      BY <2>1, <3>3
  <2>2. CASE ~IsBoundary(T[<<0, p>>])
    <3>1. \A l \in Nat : l > 0 => p \notin At(T, l)
      <4>1. 0 \in Nat /\ ~(p \in At(T, 0) /\ Boundary(T, 0, p))
        BY <2>2 DEF Boundary
      <4> QED
        BY <1>1, <4>1, NoneAbove
    <3>2. merged = T
      BY <2>2
    <3> QED
      BY <1>1, <3>1, <3>2, SameTwice
  <2> QED
    BY <2>1, <2>2
<1> HIDE DEF merged
<1>3. /\ Typed(U) /\ ButFor(merged, U, p)
      /\ \A j \in Nat : p \in At(U, j) <=> p \in At(merged, j) /\ j # 0
  BY <1>2, DeleteNodeIs
<1> HIDE DEF U
<1>4. ButFor(T, U, p) /\ \A j \in Nat : p \notin At(U, j)
  BY <1>2, <1>3, SameTwice
<1> DEFINE q == FirstSibling(U, 0, p)
<1>5. /\ q \in Nat /\ q < p /\ (q = 0 \/ q \in Others(T, 0 + 1))
      /\ \A y \in Others(T, 0 + 1) : y < p => y <= q
  <2>1. 0 \in Nat /\ <<0, 0>> \in DOMAIN U /\ ~(p \in At(U, 0) /\ Boundary(U, 0, p))
    BY <1>3, <1>4 DEF Typed
  <2> QED
    BY <1>1, <1>4, <2>1, SiblingFound
<1> HIDE DEF q
<1>6. Carried(T, U, 0, p, q) /\ p \notin At(U, 0)
  BY <1>3, <1>4, <1>5 DEF Carried
<1> QED
  BY <1>6 DEF U, merged, q

-----------------------------------------------------------------------------
(* updateParents carries a change up until the first sibling is the anchor. *)
Climbs(T, at) ==
  /\ at.level \in Nat \ {0} /\ Climbing(at.tree, at.level, at.key)
  /\ SameLevel(T, at.tree, 0)

LEMMA UpdateOnce ==
  ASSUME NEW T, NEW at, Climbs(T, at)
  PROVE  /\ Climbs(T, Update(at))
         /\ at.key = 0 => Update(at) = at
         /\ at.key # 0 => Update(at).level = at.level + 1
<1>1. CASE at.key = 0
  BY <1>1 DEF Update
<1>2. CASE at.key # 0
  <2> DEFINE m == at.level  p == at.key  V == at.tree
             next == Replace(V, m, p, GetHash(V, m, p))
  <2>1. m \in Nat \ {0} /\ Climbing(V, m, p) /\ SameLevel(T, V, 0)
    BY DEF Climbs
  <2>2. Update(at) = next
    BY <1>2 DEF Update
  <2>3. p \in Keys
    <3>1. p \in Others(V, m)
      BY <1>2, <2>1 DEF Climbing
    <3> QED
      BY <3>1, Numbers
  <2>4. GetHash(V, m, p)[1] = m
    BY DEF GetHash
  <2>5. p # 0
    BY <1>2
  <2> HIDE DEF m, p, V
  <2>6. Carried(V, next.tree, m, p, next.key) /\ next.level = m + 1
    <3>1. m \in Nat /\ Climbing(V, m, p)
      BY <2>1
    <3> QED
      BY <2>3, <2>4, <3>1, ReplaceCarries
  <2> HIDE DEF next
  <2>7. Climbing(next.tree, m + 1, next.key)
    BY <2>1, <2>3, <2>6, CarriedUp
  <2>8. SameLevel(V, next.tree, 0)
    <3>1. 0 \in Nat /\ 0 < m
      BY <2>1
    <3> QED
      BY <2>6, <3>1 DEF Carried
  <2>9. SameLevel(T, next.tree, 0)
    BY <2>1, <2>8, SameTwice
  <2>10. next.level \in Nat \ {0}
    BY <2>1, <2>6
  <2>11. Climbs(T, next)
    BY <2>6, <2>7, <2>9, <2>10 DEF Climbs
  <2> QED
    BY <1>2, <2>2, <2>6, <2>11 DEF m
<1> QED
  BY <1>1, <1>2

LEMMA ClimbsOut ==
  ASSUME NEW T, NEW at, Climbs(T, at)
  PROVE  \E V, m : /\ m \in Nat \ {0} /\ Climbing(V, m, 0) /\ SameLevel(T, V, 0)
                   /\ UpdateParents(at) = UpdateAnchor(V, m)
<1>1. PICK up : UpdatesTo(up, at)
  BY UpdatedSteps
<1>2. MaxLevel \in Nat /\ at.level \in Nat \ {0}
  BY WriterAssumption DEF Climbs
<1> DEFINE good(n) == Climbs(T, up[n]) /\ (up[n].key = 0 \/ up[n].level = at.level + n)
           S == {n \in 0 .. MaxLevel : good(n)}
<1>3. 0 \in S
  BY <1>1, <1>2 DEF UpdatesTo
<1>4. ASSUME NEW n \in 1 .. MaxLevel, n - 1 \in S PROVE n \in S
  <2>1. up[n] = Update(up[n - 1])
    BY <1>1 DEF UpdatesTo
  <2>2. good(n - 1)
    BY <1>4
  <2>3. Climbs(T, up[n])
    BY <2>1, <2>2, UpdateOnce
  <2>4. up[n].key = 0 \/ up[n].level = at.level + n
    <3>1. CASE up[n - 1].key = 0
      <4>1. up[n] = up[n - 1]
        BY <2>1, <2>2, <3>1, UpdateOnce
      <4> QED
        BY <3>1, <4>1
    <3>2. CASE up[n - 1].key # 0
      <4>1. up[n].level = up[n - 1].level + 1
        BY <2>1, <2>2, <3>2, UpdateOnce
      <4>2. up[n - 1].level = at.level + (n - 1)
        BY <2>2, <3>2
      <4> QED
        BY <1>2, <4>1, <4>2
    <3> QED
      BY <3>1, <3>2
  <2> QED
    BY <2>3, <2>4
<1>5. MaxLevel \in S
  <2> HIDE DEF S
  <2> QED
    BY <1>2, <1>3, <1>4, UpTo
<1> DEFINE V == up[MaxLevel].tree  m == up[MaxLevel].level  p == up[MaxLevel].key
<1>6. /\ m \in Nat \ {0} /\ Climbing(V, m, p) /\ SameLevel(T, V, 0)
      /\ p = 0 \/ m = at.level + MaxLevel
  BY <1>5 DEF Climbs
<1>7. UpdateParents(at) = UpdateAnchor(V, m)
  BY <1>1 DEF UpdatesTo
<1> HIDE DEF V, m, p
<1>8. p = 0
  <2> SUFFICES ASSUME p # 0 PROVE FALSE
    OBVIOUS
  <2>1. m - 1 \in Nat /\ (m - 1) + 1 = m /\ m - 1 >= MaxLevel
    BY <1>2, <1>6
  <2>2. p \in Others(V, m)
    BY <1>6 DEF Climbing
  <2>3. p \in Others(V, m - 1) /\ Boundary(V, m - 1, p)
    BY <1>6, <2>1, <2>2 DEF Climbing, Shaped, Stacked
  <2>4. p \in At(V, m - 1) /\ Typed(V)
    BY <1>6, <2>3, Numbers DEF Climbing, Shaped
  <2>5. m - 1 < MaxLevel
    BY <2>1, <2>3, <2>4, BoundaryLevel
  <2> QED
    BY <1>2, <2>1, <2>5
<1> QED
  BY <1>6, <1>7, <1>8

(* The tree T after updateAnchor has come from level m up to level j. *)
AnchoredFrom(T, m, U, j) ==
  /\ Typed(U) /\ ButFor(T, U, 0) /\ j \in Nat /\ m <= j
  /\ \A l \in Nat : l < m => SameLevel(T, U, l)
  /\ \A l \in Nat : 0 \in At(U, l) <=> l <= j \/ 0 \in At(T, l)
  /\ \A l \in Nat : m <= l /\ l <= j => Right(U, l, 0)
  /\ \A l \in Nat : m <= l /\ l < j => Others(T, l) # {}

LEMMA AnchorFirst ==
  ASSUME NEW T, NEW m \in Nat \ {0}, Climbing(T, m, 0)
  PROVE  AnchoredFrom(T, m, Anchor(T, m).tree, m)
<1> DEFINE hash == GetHash(T, m, 0)
           W == SetNode(T, m, 0, hash)
<1>1. Typed(T) /\ Contiguous(T) /\ hash[1] = m /\ 0 \in Keys \cup {0} /\ m - 1 \in Nat
  BY DEF Climbing, Shaped, GetHash
<1>2. Anchor(T, m).tree = W
  BY DEF Anchor
<1> HIDE DEF hash
<1>3. /\ Typed(W) /\ ButFor(T, W, 0) /\ W[<<m, 0>>] = hash
      /\ \A i \in Nat : 0 \in At(W, i) <=> 0 \in At(T, i) \/ i = m
      /\ \A i \in Nat \ {m} : SameLevel(T, W, i)
  BY <1>1, SetNodeIs
<1> HIDE DEF W
<1>4. \A l \in Nat : l < m => 0 \in At(T, l)
  <2>1. ASSUME NEW l \in Nat, l < m PROVE 0 \in At(T, l)
    <3>1. l <= m - 1 /\ <<m - 1, 0>> \in DOMAIN T
      BY <2>1 DEF Climbing
    <3>2. <<l, 0>> \in DOMAIN T
      BY <1>1, <3>1, AnchorsBelow
    <3> QED
      BY <3>2 DEF At
  <2> QED
    BY <2>1
<1>5. \A l \in Nat : 0 \in At(W, l) <=> l <= m \/ 0 \in At(T, l)
  BY <1>3, <1>4
<1>6. Right(W, m, 0)
  <2>1. SameLevel(T, W, m - 1) /\ 0 \in Nat /\ m \in Nat
    BY <1>1, <1>3
  <2>2. GetHash(T, m, 0) = GetHash(W, m, 0)
    BY <2>1, SameBelow
  <2> QED
    BY <1>3, <2>2 DEF Right, hash
<1>7. \A l \in Nat : m <= l /\ l <= m => l = m
  OBVIOUS
<1>8. \A l \in Nat : l < m => SameLevel(T, W, l)
  BY <1>3
<1>9. AnchoredFrom(T, m, W, m)
  BY <1>3, <1>5, <1>6, <1>7, <1>8 DEF AnchoredFrom
<1> QED
  BY <1>2, <1>9

LEMMA AnchorNext ==
  ASSUME NEW T, NEW m \in Nat \ {0}, NEW U, NEW j, AnchoredFrom(T, m, U, j), At(U, j) # {0}
  PROVE  AnchoredFrom(T, m, Anchor(U, j + 1).tree, j + 1)
<1> DEFINE hash == GetHash(U, j + 1, 0)
           W == SetNode(U, j + 1, 0, hash)
<1>1. /\ Typed(U) /\ ButFor(T, U, 0) /\ hash[1] = j + 1 /\ 0 \in Keys \cup {0}
      /\ j \in Nat /\ j + 1 \in Nat /\ m <= j /\ m <= j + 1
  BY DEF AnchoredFrom, GetHash
<1>2. Anchor(U, j + 1).tree = W
  BY DEF Anchor
<1> HIDE DEF hash
<1>3. /\ Typed(W) /\ ButFor(U, W, 0) /\ W[<<j + 1, 0>>] = hash
      /\ \A i \in Nat : 0 \in At(W, i) <=> 0 \in At(U, i) \/ i = j + 1
      /\ \A i \in Nat \ {j + 1} : SameLevel(U, W, i)
  BY <1>1, SetNodeIs
<1> HIDE DEF W
<1>4. ButFor(T, W, 0)
  BY <1>1, <1>3, SameTwice
<1>5. ASSUME NEW l \in Nat, l < m PROVE SameLevel(T, W, l)
  <2>1. SameLevel(T, U, l) /\ SameLevel(U, W, l)
    BY <1>1, <1>3, <1>5 DEF AnchoredFrom
  <2> QED
    BY <2>1, SameTwice
<1>6. ASSUME NEW l \in Nat PROVE 0 \in At(W, l) <=> l <= j + 1 \/ 0 \in At(T, l)
  <2>1. 0 \in At(U, l) <=> l <= j \/ 0 \in At(T, l)
    BY DEF AnchoredFrom
  <2>2. l <= j + 1 <=> l <= j \/ l = j + 1
    BY <1>1
  <2> QED
    BY <1>3, <2>1, <2>2
<1>7. ASSUME NEW l \in Nat, m <= l, l <= j + 1 PROVE Right(W, l, 0)
  <2>1. SameLevel(U, W, l - 1) /\ l - 1 \in Nat /\ 0 \in Nat
    BY <1>1, <1>3, <1>7
  <2>2. GetHash(U, l, 0) = GetHash(W, l, 0)
    BY <2>1, SameBelow
  <2>3. CASE l = j + 1
    BY <1>3, <2>2, <2>3 DEF Right, hash
  <2>4. CASE l <= j
    <3>1. Right(U, l, 0) /\ 0 \in At(U, l)
      BY <1>7, <2>4 DEF AnchoredFrom
    <3>2. W[<<l, 0>>] = U[<<l, 0>>]
      BY <1>1, <1>3, <2>4, <3>1 DEF SameLevel
    <3> QED
      BY <2>2, <3>1, <3>2 DEF Right
  <2> QED
    BY <1>1, <1>7, <2>3, <2>4
<1>8. ASSUME NEW l \in Nat, m <= l, l < j + 1 PROVE Others(T, l) # {}
  <2>1. CASE l < j
    BY <1>8, <2>1 DEF AnchoredFrom
  <2>2. CASE l = j
    <3>1. 0 \in At(U, j)
      BY <1>1 DEF AnchoredFrom
    <3>2. PICK x \in At(U, j) : x # 0
      BY <3>1
    <3>3. x \in (Keys \cup {0}) \ {0}
      BY <3>2, Numbers
    <3>4. x \in At(T, j)
      BY <1>1, <3>2, <3>3 DEF ButFor
    <3> QED
      BY <2>2, <3>2, <3>4 DEF Others
  <2> QED
    BY <1>1, <1>8, <2>1, <2>2
<1>9. AnchoredFrom(T, m, W, j + 1)
  BY <1>1, <1>3, <1>4, <1>5, <1>6, <1>7, <1>8 DEF AnchoredFrom
<1> QED
  BY <1>2, <1>9

(* updateAnchor has its anchors when it has come to a level of nothing else. *)
LEMMA AnchorsOut ==
  ASSUME NEW T, NEW m \in Nat \ {0}, Climbing(T, m, 0)
  PROVE  \E U, j : /\ AnchoredFrom(T, m, U, j) /\ Others(T, j) = {}
                   /\ UpdateAnchor(T, m) = DeleteParents(U, j, 0)
<1>1. PICK up : AnchorsTo(up, T, m)
  BY AnchoredSteps
<1>2. MaxLevel \in Nat
  BY WriterAssumption
<1> DEFINE good(n) == /\ AnchoredFrom(T, m, up[n].tree, up[n].level)
                      /\ At(up[n].tree, up[n].level) = {0} \/ up[n].level = m + n
           S == {n \in 0 .. MaxLevel : good(n)}
<1>3. 0 \in S
  <2>1. up[0] = Anchor(T, m)
    BY <1>1 DEF AnchorsTo
  <2>2. up[0].level = m
    BY <2>1 DEF Anchor
  <2>3. AnchoredFrom(T, m, up[0].tree, m)
    BY <2>1, AnchorFirst
  <2> QED
    BY <1>2, <2>2, <2>3
<1>4. ASSUME NEW n \in 1 .. MaxLevel, n - 1 \in S PROVE n \in S
  <2> DEFINE U == up[n - 1].tree  j == up[n - 1].level
  <2>1. up[n] = IF At(U, j) = {0} THEN up[n - 1] ELSE Anchor(U, j + 1)
    BY <1>1 DEF AnchorsTo, Anchored
  <2>2. good(n - 1)
    BY <1>4
  <2>3. CASE At(U, j) = {0}
    <3>1. up[n] = up[n - 1]
      BY <2>1, <2>3
    <3> QED
      BY <2>2, <2>3, <3>1
  <2>4. CASE At(U, j) # {0}
    <3>1. up[n] = Anchor(U, j + 1)
      BY <2>1, <2>4
    <3>2. up[n].level = j + 1
      BY <3>1 DEF Anchor
    <3>3. AnchoredFrom(T, m, U, j) /\ j = m + (n - 1)
      BY <2>2, <2>4
    <3> HIDE DEF U, j
    <3>4. AnchoredFrom(T, m, Anchor(U, j + 1).tree, j + 1)
      BY <2>4, <3>3, AnchorNext
    <3> QED
      BY <3>1, <3>2, <3>3, <3>4
  <2> QED
    BY <2>3, <2>4
<1>5. MaxLevel \in S
  <2> HIDE DEF S
  <2> QED
    BY <1>2, <1>3, <1>4, UpTo
<1> DEFINE U == up[MaxLevel].tree  j == up[MaxLevel].level
<1>6. AnchoredFrom(T, m, U, j) /\ (At(U, j) = {0} \/ j = m + MaxLevel)
  BY <1>5
<1>7. UpdateAnchor(T, m) = DeleteParents(U, j, 0)
  BY <1>1 DEF AnchorsTo
<1> HIDE DEF U, j
<1>8. Others(T, j) = {}
  <2> SUFFICES ASSUME NEW x \in Others(T, j) PROVE FALSE
    OBVIOUS
  <2>1. x \in Keys /\ x \in At(T, j) /\ j \in Nat /\ m <= j
    BY <1>6, Numbers DEF AnchoredFrom
  <2>2. x # 0
    BY DEF Others
  <2>3. CASE At(U, j) = {0}
    <3>1. x \in At(U, j)
      <4>1. x \in (Keys \cup {0}) \ {0}
        BY <2>1, <2>2
      <4> QED
        BY <1>6, <2>1, <4>1 DEF AnchoredFrom, ButFor
    <3> QED
      BY <2>2, <2>3, <3>1
  <2>4. CASE j = m + MaxLevel
    <3>1. j - 1 \in Nat /\ (j - 1) + 1 = j /\ j - 1 >= MaxLevel
      BY <1>2, <2>4
    <3>2. x \in Others(T, j - 1) /\ Boundary(T, j - 1, x)
      BY <3>1 DEF Climbing, Shaped, Stacked
    <3>3. x \in At(T, j - 1) /\ Typed(T)
      BY <3>2, Numbers DEF Climbing, Shaped
    <3>4. j - 1 < MaxLevel
      BY <3>1, <3>2, <3>3, BoundaryLevel
    <3> QED
      BY <1>2, <3>1, <3>4
  <2> QED
    BY <1>6, <2>3, <2>4
<1> QED
  BY <1>6, <1>7, <1>8

LEMMA AnchorsRight ==
  ASSUME NEW T, NEW m \in Nat \ {0}, Climbing(T, m, 0)
  PROVE  WellFormed(UpdateAnchor(T, m)) /\ SameLevel(T, UpdateAnchor(T, m), 0)
<1>1. PICK U, j : /\ AnchoredFrom(T, m, U, j) /\ Others(T, j) = {}
                  /\ UpdateAnchor(T, m) = DeleteParents(U, j, 0)
  BY AnchorsOut
<1> DEFINE D == DeleteParents(U, j, 0)
<1>2. /\ Typed(U) /\ ButFor(T, U, 0) /\ j \in Nat /\ m <= j /\ 0 \in Keys \cup {0}
      /\ Stacked(T) /\ Contiguous(T)
      /\ \A l \in Nat : 0 \in At(U, l) <=> l <= j \/ 0 \in At(T, l)
  BY <1>1 DEF AnchoredFrom, Climbing, Shaped
<1>3. \A l \in Nat : (0 \in At(T, l) <=> <<l, 0>> \in DOMAIN T) /\ (0 \in At(U, l) <=> <<l, 0>> \in DOMAIN U)
  BY DEF At
<1>4. /\ Typed(D) /\ ButFor(U, D, 0)
      /\ \A i \in Nat : 0 \in At(D, i) <=> 0 \in At(U, i) /\ i <= j
      /\ \A i \in 0 .. j : SameLevel(U, D, i)
  <2>1. \A i \in Nat : i > j /\ <<i + 1, 0>> \in DOMAIN U => <<i, 0>> \in DOMAIN U
    <3>1. ASSUME NEW i \in Nat, i > j, <<i + 1, 0>> \in DOMAIN U PROVE <<i, 0>> \in DOMAIN U
      <4>1. i + 1 \in Nat /\ ~(i + 1 <= j)
        BY <1>2, <3>1
      <4>2. <<i + 1, 0>> \in DOMAIN T
        BY <1>2, <1>3, <3>1, <4>1
      <4>3. <<i, 0>> \in DOMAIN T
        BY <1>2, <4>2 DEF Contiguous
      <4> QED
        BY <1>2, <1>3, <4>3
    <3> QED
      BY <3>1
  <2> QED
    BY <1>2, <2>1, DeleteParentsIs
<1> HIDE DEF D
<1>5. ButFor(T, D, 0)
  BY <1>2, <1>4, SameTwice
<1>6. \A i \in Nat : <<i, 0>> \in DOMAIN D <=> i <= j
  <2>1. \A i \in Nat : 0 \in At(D, i) <=> <<i, 0>> \in DOMAIN D
    BY DEF At
  <2> QED
    BY <1>2, <1>4, <2>1
<1>7. \A l \in Nat : Others(D, l) = Others(T, l)
  <2>1. ASSUME NEW l \in Nat PROVE Others(D, l) = Others(T, l)
    <3>1. \A x \in Keys : x \in At(T, l) <=> x \in At(D, l)
      <4>1. \A x \in Keys : x \in (Keys \cup {0}) \ {0}
        BY Numbers
      <4> QED
        BY <1>5, <4>1 DEF ButFor
    <3> QED
      BY <3>1, Numbers
  <2> QED
    BY <2>1
<1>8. \A l \in Nat : \A x \in Others(T, l) : D[<<l, x>>] = T[<<l, x>>]
  <2>1. ASSUME NEW l \in Nat, NEW x \in Others(T, l) PROVE D[<<l, x>>] = T[<<l, x>>]
    <3>1. x \in (Keys \cup {0}) \ {0} /\ x \in At(T, l)
      BY Numbers
    <3> QED
      BY <1>5, <3>1 DEF ButFor
  <2> QED
    BY <2>1
<1>9. Shaped(D)
  <2>1. \A l \in Nat : l + 1 \in Nat /\ (l + 1 <= j => l <= j)
    BY <1>2
  <2>2. Contiguous(D)
    BY <1>6, <2>1 DEF Contiguous
  <2>3. Stacked(D)
    <3>1. ASSUME NEW l \in Nat
          PROVE  Others(D, l + 1) = {k \in Others(D, l) : Boundary(D, l, k)}
      <4>1. Others(T, l + 1) = {k \in Others(T, l) : Boundary(T, l, k)}
        BY <1>2 DEF Stacked
      <4>2. \A k \in Others(T, l) : Boundary(D, l, k) <=> Boundary(T, l, k)
        BY <1>8 DEF Boundary
      <4>3. Others(D, l + 1) = Others(T, l + 1) /\ Others(D, l) = Others(T, l)
        BY <1>7
      <4> QED
        BY <4>1, <4>2, <4>3
    <3> QED
      BY <3>1 DEF Stacked
  <2> QED
    BY <1>4, <2>2, <2>3 DEF Shaped
<1>10. ASSUME NEW l \in Nat, l < m PROVE SameLevel(T, D, l)
  <2>1. SameLevel(T, U, l)
    BY <1>1, <1>10 DEF AnchoredFrom
  <2>2. SameLevel(U, D, l)
    BY <1>2, <1>4, <1>10
  <2> QED
    BY <2>1, <2>2, SameTwice
<1>11. ASSUME NEW l \in Nat \ {0}, NEW x \in At(D, l) PROVE Right(D, l, x)
  <2>1. l - 1 \in Nat /\ l \in Nat /\ 0 \in Nat
    OBVIOUS
  <2>2. CASE x = 0 /\ l < m
    <3>1. SameLevel(T, D, l) /\ SameLevel(T, D, l - 1)
      BY <1>10, <2>1, <2>2
    <3>2. 0 \in At(T, l) /\ T[<<l, 0>>] = D[<<l, 0>>]
      BY <1>11, <2>2, <3>1 DEF SameLevel
    <3>3. Right(T, l, 0)
      BY <2>2, <3>2 DEF Climbing
    <3>4. GetHash(T, l, 0) = GetHash(D, l, 0)
      BY <2>1, <3>1, SameBelow
    <3> QED
      BY <2>2, <3>2, <3>3, <3>4 DEF Right
  <2>3. CASE x = 0 /\ l >= m
    <3>1. l <= j
      BY <1>4, <1>11, <2>3
    <3>2. SameLevel(U, D, l) /\ SameLevel(U, D, l - 1)
      BY <1>2, <1>4, <2>1, <3>1
    <3>3. Right(U, l, 0)
      BY <1>1, <2>3, <3>1 DEF AnchoredFrom
    <3>4. U[<<l, 0>>] = D[<<l, 0>>]
      BY <1>11, <2>3, <3>2 DEF SameLevel
    <3>5. GetHash(U, l, 0) = GetHash(D, l, 0)
      BY <2>1, <3>2, SameBelow
    <3> QED
      BY <2>3, <3>3, <3>4, <3>5 DEF Right
  <2>4. CASE x # 0
    <3>1. x \in Others(D, l)
      BY <1>11, <2>4 DEF Others
    <3>2. x \in Others(T, l) /\ D[<<l, x>>] = T[<<l, x>>]
      BY <1>7, <1>8, <3>1
    <3>3. x \in Keys /\ x \in At(T, l)
      BY <3>2, Numbers
    <3>4. x \in Nat /\ x > 0
      BY <3>3, Numbers
    <3>5. Right(T, l, x)
      <4>1. ~IsLast(T, l, x, 0)
        BY <3>4 DEF IsLast
      <4> QED
        BY <3>3, <4>1 DEF Climbing
    <3>6. GetHash(T, l, x) = GetHash(D, l, x)
      BY <1>5, <2>1, <3>4, Elsewhere
    <3> QED
      BY <3>2, <3>5, <3>6 DEF Right
  <2> QED
    BY <2>2, <2>3, <2>4
<1>12. ASSUME NEW l \in Nat, Others(D, l) # {} PROVE <<l + 1, 0>> \in DOMAIN D
  <2>1. PICK x : x \in Others(T, l)
    BY <1>7, <1>12
  <2>2. l < j
    <3>1. CASE l = j
      BY <1>1, <2>1, <3>1
    <3>2. CASE l > j
      <4>1. x \in Others(T, j)
        BY <1>2, <2>1, <3>2, Standing
      <4> QED
        BY <1>1, <4>1
    <3> QED
      BY <1>2, <3>1, <3>2
  <2> QED
    BY <1>2, <1>6, <2>2
<1>13. ASSUME NEW l \in Nat \ {0}, <<l + 1, 0>> \in DOMAIN D PROVE Others(D, l) # {}
  <2>1. l + 1 <= j
    BY <1>6, <1>13
  <2>2. Others(T, l) # {}
    <3>1. CASE l >= m
      BY <1>1, <1>2, <2>1, <3>1 DEF AnchoredFrom
    <3>2. CASE l = m - 1
      BY <3>2 DEF Climbing
    <3>3. CASE l < m - 1
      <4>1. PICK x : x \in Others(T, m - 1)
        BY <3>3 DEF Climbing
      <4>2. m - 1 \in Nat /\ l \in Nat
        OBVIOUS
      <4>3. x \in Others(T, l)
        BY <1>2, <3>3, <4>1, <4>2, Standing
      <4> QED
        BY <4>3
    <3> QED
      BY <3>1, <3>2, <3>3
  <2> QED
    BY <1>7, <2>2
<1>14. WellFormed(D)
  BY <1>9, <1>11, <1>12, <1>13 DEF WellFormed
<1>15. SameLevel(T, D, 0)
  BY <1>10
<1> QED
  BY <1>1, <1>14, <1>15 DEF D

-----------------------------------------------------------------------------
LEMMA StartsClimbing ==
  ASSUME NEW T, WellFormed(T), NEW p \in Keys
  PROVE  Climbing(T, 0, p)
<1>1. ASSUME NEW l \in Nat \ {0}, Others(T, l) # {} PROVE <<l, 0>> \in DOMAIN T
  <2>1. <<l + 1, 0>> \in DOMAIN T
    BY <1>1 DEF WellFormed
  <2> QED
    BY <2>1 DEF WellFormed, Shaped, Contiguous
<1>2. \A l \in Nat \ {0} : (\E x \in Others(T, l) : x <= p) => <<l, 0>> \in DOMAIN T
  BY <1>1
<1>3. Shaped(T) /\ \A l \in Nat \ {0} : \A x \in At(T, l) : Right(T, l, x)
  BY DEF WellFormed
<1> QED
  BY <1>2, <1>3 DEF Climbing

(* A change carried up from level 0 leaves the tree well formed. *)
LEMMA CarriedOut ==
  ASSUME NEW T, WellFormed(T), NEW p \in Keys, NEW at, at.level = 1,
         Carried(T, at.tree, 0, p, at.key)
  PROVE  WellFormed(UpdateParents(at)) /\ SameLevel(at.tree, UpdateParents(at), 0)
<1>1. Climbing(T, 0, p)
  BY StartsClimbing
<1>2. Climbing(at.tree, 1, at.key)
  <2>1. 0 \in Nat /\ 0 + 1 = 1
    OBVIOUS
  <2> QED
    BY <1>1, <2>1, CarriedUp
<1>3. Climbs(at.tree, at)
  BY <1>2, SameTwice DEF Climbs
<1>4. PICK V, m : /\ m \in Nat \ {0} /\ Climbing(V, m, 0) /\ SameLevel(at.tree, V, 0)
                  /\ UpdateParents(at) = UpdateAnchor(V, m)
  BY <1>3, ClimbsOut
<1>5. WellFormed(UpdateAnchor(V, m)) /\ SameLevel(V, UpdateAnchor(V, m), 0)
  BY <1>4, AnchorsRight
<1> QED
  BY <1>4, <1>5, SameTwice

LEMMA SetIs ==
  ASSUME NEW T, WellFormed(T), NEW f, LeavesOf(T, f), NEW k \in Keys, NEW v, v # NoValue
  PROVE  /\ WellFormed(Set(T, k, v))
         /\ LeavesOf(Set(T, k, v), Changed(f, [key |-> k, value |-> v]))
<1> DEFINE hash == LeafHash(k, v)
           at == Replace(T, 0, k, hash)
           U == Set(T, k, v)
           g == Changed(f, [key |-> k, value |-> v])
<1>1. DOMAIN g = DOMAIN f \cup {k} /\ \A x \in DOMAIN g : g[x] = IF x = k THEN v ELSE f[x]
  BY DEF Changed
<1> HIDE DEF g
<1>2. k # 0 /\ k \in Nat /\ \A x \in Keys : x # 0
  BY Numbers
<1>3. CASE k \in At(T, 0) /\ T[<<0, k>>] = hash
  <2>1. U = T
    BY <1>3 DEF Set
  <2>2. k \in DOMAIN f
    BY <1>3, Numbers DEF LeavesOf
  <2>3. LeavesOf(T, g)
    BY <1>1, <1>3, <2>2 DEF LeavesOf
  <2> QED
    BY <2>1, <2>3 DEF g
<1>4. CASE ~(k \in At(T, 0) /\ T[<<0, k>>] = hash)
  <2>1. U = UpdateParents(at)
    BY <1>4 DEF Set
  <2> HIDE DEF U
  <2>2. Carried(T, at.tree, 0, k, at.key) /\ at.level = 1 /\ Placed(at.tree, 0, k, hash)
    <3>1. Climbing(T, 0, k)
      BY StartsClimbing
    <3>2. 0 \in Nat /\ hash[1] = 0 /\ 0 + 1 = 1
      BY DEF LeafHash
    <3> HIDE DEF hash
    <3> QED
      BY <3>1, <3>2, ReplaceCarries
  <2> HIDE DEF at, hash
  <2>3. WellFormed(U) /\ SameLevel(at.tree, U, 0)
    BY <2>1, <2>2, CarriedOut
  <2>4. LeavesOf(U, g)
    <3>1. /\ \A x \in At(at.tree, 0) : x \in At(U, 0) /\ U[<<0, x>>] = at.tree[<<0, x>>]
          /\ At(U, 0) = At(at.tree, 0)
      BY <2>3 DEF SameLevel
    <3>2. k \in At(U, 0) /\ U[<<0, k>>] = hash
      BY <2>2, <3>1 DEF Placed
    <3>3. ASSUME NEW x \in (Keys \cup {0}) \ {k}
          PROVE  (x \in At(U, 0) <=> x \in At(T, 0)) /\ (x \in At(T, 0) => U[<<0, x>>] = T[<<0, x>>])
      <4>1. (x \in At(T, 0) <=> x \in At(at.tree, 0))
            /\ (x \in At(T, 0) => T[<<0, x>>] = at.tree[<<0, x>>])
        BY <2>2 DEF Carried, ButFor
      <4> QED
        BY <3>1, <4>1
    <3>4. Others(U, 0) = DOMAIN g
      <4>1. Others(U, 0) = Others(T, 0) \cup {k}
        <5>1. \A x \in Keys : x \in Others(U, 0) <=> x \in Others(T, 0) \/ x = k
          <6>1. \A x \in Keys : (x \in Others(U, 0) <=> x \in At(U, 0)) /\ (x \in Others(T, 0) <=> x \in At(T, 0))
            BY Numbers
          <6> QED
            BY <3>2, <3>3, <6>1
        <5>2. Others(U, 0) \subseteq Keys /\ Others(T, 0) \subseteq Keys
          BY Numbers
        <5> QED
          BY <5>1, <5>2
      <4> QED
        BY <1>1, <4>1 DEF LeavesOf
    <3>5. U[<<0, 0>>] = AnchorHash
      <4>1. 0 \in At(T, 0) /\ 0 \in (Keys \cup {0}) \ {k} /\ T[<<0, 0>>] = AnchorHash
        BY <1>2 DEF WellFormed, Shaped, Typed, At, LeavesOf
      <4> QED
        BY <3>3, <4>1
    <3>6. ASSUME NEW x \in DOMAIN g PROVE U[<<0, x>>] = LeafHash(x, g[x])
      <4>1. CASE x = k
        BY <1>1, <3>2, <4>1 DEF hash
      <4>2. CASE x # k
        <5>1. x \in DOMAIN f /\ g[x] = f[x]
          BY <1>1, <4>2
        <5>2. x \in At(T, 0) /\ x \in Keys /\ T[<<0, x>>] = LeafHash(x, f[x])
          <6>1. x \in Others(T, 0) /\ T[<<0, x>>] = LeafHash(x, f[x])
            BY <5>1 DEF LeavesOf
          <6> QED
            BY <6>1, Numbers
        <5>3. U[<<0, x>>] = T[<<0, x>>]
          BY <3>3, <4>2, <5>2
        <5> QED
          BY <5>1, <5>2, <5>3
      <4> QED
        BY <4>1, <4>2
    <3> QED
      BY <3>4, <3>5, <3>6 DEF LeavesOf
  <2> QED
    BY <2>3, <2>4 DEF U, g
<1> QED
  BY <1>3, <1>4

LEMMA DeleteIs ==
  ASSUME NEW T, WellFormed(T), NEW f, LeavesOf(T, f), NEW k \in Keys
  PROVE  /\ WellFormed(Delete(T, k))
         /\ LeavesOf(Delete(T, k), Changed(f, [key |-> k, value |-> NoValue]))
<1> DEFINE U == Delete(T, k)
           g == Changed(f, [key |-> k, value |-> NoValue])
<1>1. DOMAIN g = DOMAIN f \ {k} /\ \A x \in DOMAIN g : g[x] = f[x]
  BY DEF Changed
<1> HIDE DEF g
<1>2. k # 0 /\ k \in Nat /\ \A x \in Keys : x # 0
  BY Numbers
<1>3. CASE k \notin At(T, 0)
  <2>1. U = T
    BY <1>3 DEF Delete
  <2>2. k \notin DOMAIN f
    BY <1>3, Numbers DEF LeavesOf
  <2>3. LeavesOf(T, g)
    <3>1. DOMAIN g = DOMAIN f
      BY <1>1, <2>2
    <3> QED
      BY <1>1, <3>1 DEF LeavesOf
  <2> QED
    BY <2>1, <2>3 DEF g
<1>4. CASE k \in At(T, 0)
  <2> DEFINE merged == IF IsBoundary(T[<<0, k>>]) THEN DeleteParents(T, 0, k) ELSE T
             without == DeleteNode(merged, 0, k)
             at == Parent(without, 0, FirstSibling(without, 0, k))
  <2>1. U = UpdateParents(at)
    BY <1>4 DEF Delete
  <2> HIDE DEF U
  <2>2. Carried(T, without, 0, k, FirstSibling(without, 0, k)) /\ k \notin At(without, 0)
    <3>1. Climbing(T, 0, k)
      BY StartsClimbing
    <3> QED
      BY <3>1, DeleteCarries
  <2> HIDE DEF without
  <2>3. at.tree = without /\ at.level = 1 /\ at.key = FirstSibling(without, 0, k)
    BY DEF Parent
  <2> HIDE DEF at
  <2>4. WellFormed(U) /\ SameLevel(without, U, 0)
    <3>1. Carried(T, at.tree, 0, k, at.key)
      BY <2>2, <2>3
    <3>2. WellFormed(UpdateParents(at)) /\ SameLevel(at.tree, UpdateParents(at), 0)
      BY <2>3, <3>1, CarriedOut
    <3> QED
      BY <2>1, <2>3, <3>2
  <2>5. LeavesOf(U, g)
    <3>1. /\ \A x \in At(without, 0) : x \in At(U, 0) /\ U[<<0, x>>] = without[<<0, x>>]
          /\ At(U, 0) = At(without, 0)
      BY <2>4 DEF SameLevel
    <3>2. k \notin At(U, 0)
      BY <2>2, <3>1
    <3>3. ASSUME NEW x \in (Keys \cup {0}) \ {k}
          PROVE  (x \in At(U, 0) <=> x \in At(T, 0)) /\ (x \in At(T, 0) => U[<<0, x>>] = T[<<0, x>>])
      <4>1. (x \in At(T, 0) <=> x \in At(without, 0))
            /\ (x \in At(T, 0) => T[<<0, x>>] = without[<<0, x>>])
        BY <2>2 DEF Carried, ButFor
      <4> QED
        BY <3>1, <4>1
    <3>4. Others(U, 0) = DOMAIN g
      <4>1. Others(U, 0) = Others(T, 0) \ {k}
        <5>1. \A x \in Keys : x \in Others(U, 0) <=> x \in Others(T, 0) /\ x # k
          <6>1. \A x \in Keys : (x \in Others(U, 0) <=> x \in At(U, 0)) /\ (x \in Others(T, 0) <=> x \in At(T, 0))
            BY Numbers
          <6> QED
            BY <3>2, <3>3, <6>1
        <5>2. Others(U, 0) \subseteq Keys /\ Others(T, 0) \subseteq Keys
          BY Numbers
        <5> QED
          BY <5>1, <5>2
      <4> QED
        BY <1>1, <4>1 DEF LeavesOf
    <3>5. U[<<0, 0>>] = AnchorHash
      <4>1. 0 \in At(T, 0) /\ 0 \in (Keys \cup {0}) \ {k} /\ T[<<0, 0>>] = AnchorHash
        BY <1>2 DEF WellFormed, Shaped, Typed, At, LeavesOf
      <4> QED
        BY <3>3, <4>1
    <3>6. ASSUME NEW x \in DOMAIN g PROVE U[<<0, x>>] = LeafHash(x, g[x])
      <4>1. x \in DOMAIN f /\ g[x] = f[x] /\ x # k
        BY <1>1
      <4>2. x \in At(T, 0) /\ x \in Keys /\ T[<<0, x>>] = LeafHash(x, f[x])
        <5>1. x \in Others(T, 0) /\ T[<<0, x>>] = LeafHash(x, f[x])
          BY <4>1 DEF LeavesOf
        <5> QED
          BY <5>1, Numbers
      <4>3. U[<<0, x>>] = T[<<0, x>>]
        BY <3>3, <4>1, <4>2
      <4> QED
        BY <4>1, <4>2, <4>3
    <3> QED
      BY <3>4, <3>5, <3>6 DEF LeavesOf
  <2> QED
    BY <2>4, <2>5 DEF U, g
<1> QED
  BY <1>3, <1>4

LEMMA ApplyIs ==
  ASSUME NEW T, WellFormed(T), NEW f, LeavesOf(T, f), NEW c \in Change
  PROVE  WellFormed(Apply(T, c)) /\ LeavesOf(Apply(T, c), Changed(f, c))
<1>1. c.key \in Keys /\ c = [key |-> c.key, value |-> c.value]
  BY DEF Change
<1>2. CASE c.value = NoValue
  BY <1>1, <1>2, DeleteIs DEF Apply
<1>3. CASE c.value # NoValue
  BY <1>1, <1>3, SetIs DEF Apply
<1> QED
  BY <1>2, <1>3

-----------------------------------------------------------------------------
(* The rows of the tree of f, and what a reader has reached at each depth. *)
RowsOf(row, f) ==
  /\ row[0] = Leaves(f)
  /\ \A n \in 1 .. MaxLevel + 1 : row[n] = RowAbove(row[n - 1], n)
  /\ TreeOf(f) = [n \in UNION {{l} \X DOMAIN row[l] : l \in 0 .. MaxLevel + 1} |->
                    row[n[1]][n[2]]]

LEMMA RowSteps ==
  ASSUME NEW f
  PROVE  \E row : RowsOf(row, f)
<1> DEFINE next(x, n) == RowAbove(x, n)
           Is(g, m) == g = [n \in 0 .. m |-> IF n = 0 THEN Leaves(f) ELSE next(g[n - 1], n)]
           S == {m \in 0 .. MaxLevel + 1 : \E g : Is(g, m)}
<1>0. MaxLevel + 1 \in Nat
  BY WriterAssumption
<1>1. TreeOf(f) =
        LET whole == CHOOSE g : Is(g, MaxLevel + 1)
        IN  [n \in UNION {{l} \X DOMAIN whole[l] : l \in 0 .. MaxLevel + 1} |-> whole[n[1]][n[2]]]
  BY DEF TreeOf
<1> HIDE DEF next
<1>2. 0 \in S
  <2>1. Is([n \in 0 .. 0 |-> Leaves(f)], 0)
    OBVIOUS
  <2> HIDE DEF Is
  <2> QED
    BY <1>0, <2>1
<1>3. ASSUME NEW m \in 1 .. MaxLevel + 1, m - 1 \in S PROVE m \in S
  <2>1. PICK g : Is(g, m - 1)
    BY <1>3
  <2> DEFINE h == [n \in 0 .. m |-> IF n = 0 THEN Leaves(f) ELSE next(g[n - 1], n)]
  <2>2. \A n \in 0 .. m - 1 : h[n] = g[n]
    BY <1>0, <2>1
  <2>3. \A n \in 0 .. m : n # 0 => n - 1 \in 0 .. m - 1
    BY <1>0
  <2>4. Is(h, m)
    BY <2>2, <2>3
  <2> HIDE DEF Is, h
  <2> QED
    BY <1>0, <2>4
<1>4. MaxLevel + 1 \in S
  <2> HIDE DEF S
  <2> QED
    BY <1>0, <1>2, <1>3, UpTo
<1> DEFINE all == CHOOSE g : Is(g, MaxLevel + 1)
<1>5. Is(all, MaxLevel + 1)
  BY <1>4
<1> HIDE DEF all
<1>6. all[0] = Leaves(f) /\ \A n \in 1 .. MaxLevel + 1 : all[n] = next(all[n - 1], n)
  BY <1>0, <1>5
<1> QED
  BY <1>1, <1>6 DEF next, all, RowsOf

Descends(reached, T) ==
  LET top == Root(T)[1]
  IN  /\ reached[0] = {Root(T)[2]} /\ reached[top] = Descent(T)
      /\ \A d \in 1 .. top :
           reached[d] = UNION {GetChildren(T, top - d + 1, k) : k \in reached[d - 1]}

LEMMA DescentSteps ==
  ASSUME NEW T, Root(T)[1] \in Nat
  PROVE  \E reached : Descends(reached, T)
<1> DEFINE top == Root(T)[1]
           first == {Root(T)[2]}
           next(x, n) == UNION {GetChildren(T, top - n + 1, k) : k \in x}
           Is(g, m) == g = [n \in 0 .. m |-> IF n = 0 THEN first ELSE next(g[n - 1], n)]
           S == {m \in 0 .. top : \E g : Is(g, m)}
<1>0. top \in Nat
  OBVIOUS
<1>1. Descent(T) = ((CHOOSE g : Is(g, top))[top])
  BY DEF Descent
<1> HIDE DEF next, top, first
<1>2. 0 \in S
  <2>1. Is([n \in 0 .. 0 |-> first], 0)
    OBVIOUS
  <2> HIDE DEF Is
  <2> QED
    BY <1>0, <2>1
<1>3. ASSUME NEW m \in 1 .. top, m - 1 \in S PROVE m \in S
  <2>1. PICK g : Is(g, m - 1)
    BY <1>3
  <2> DEFINE h == [n \in 0 .. m |-> IF n = 0 THEN first ELSE next(g[n - 1], n)]
  <2>2. \A n \in 0 .. m - 1 : h[n] = g[n]
    BY <1>0, <2>1
  <2>3. \A n \in 0 .. m : n # 0 => n - 1 \in 0 .. m - 1
    BY <1>0
  <2>4. Is(h, m)
    BY <2>2, <2>3
  <2> HIDE DEF Is, h
  <2> QED
    BY <1>0, <2>4
<1>4. top \in S
  <2> HIDE DEF S
  <2> QED
    BY <1>0, <1>2, <1>3, UpTo
<1> DEFINE all == CHOOSE g : Is(g, top)
<1>5. Is(all, top)
  BY <1>4
<1> HIDE DEF all
<1>6. all[0] = first /\ \A n \in 1 .. top : all[n] = next(all[n - 1], n)
  BY <1>0, <1>5
<1> QED
  BY <1>1, <1>6 DEF next, all, top, first, Descends

(* No node is higher than one above the last boundary. *)
LEMMA NoHigher ==
  ASSUME NEW T, WellFormed(T), NEW l \in Nat, NEW x \in At(T, l)
  PROVE  l <= MaxLevel + 1 /\ (x # 0 => l <= MaxLevel)
<1>1. ASSUME NEW i \in Nat, NEW y \in Others(T, i) PROVE i <= MaxLevel
  <2>1. SUFFICES ASSUME i > MaxLevel PROVE FALSE
    BY WriterAssumption
  <2>2. i - 1 \in Nat /\ (i - 1) + 1 = i /\ ~(i - 1 < MaxLevel)
    BY <2>1, WriterAssumption
  <2>3. y \in Others(T, i - 1) /\ Boundary(T, i - 1, y)
    BY <2>2 DEF WellFormed, Shaped, Stacked
  <2>4. y \in At(T, i - 1) /\ Typed(T)
    BY <2>3, Numbers DEF WellFormed, Shaped
  <2> QED
    BY <2>2, <2>3, <2>4, BoundaryLevel
<1>2. CASE x # 0
  <2>1. x \in Others(T, l)
    BY <1>2 DEF Others
  <2>2. l <= MaxLevel
    BY <1>1, <2>1
  <2> QED
    BY <2>2, WriterAssumption
<1>3. CASE x = 0
  <2>1. SUFFICES ASSUME l > MaxLevel + 1 PROVE FALSE
    BY <1>3, WriterAssumption
  <2>2. l - 1 \in Nat \ {0} /\ (l - 1) + 1 = l /\ ~(l - 1 <= MaxLevel)
    BY <2>1, WriterAssumption
  <2>3. <<l, 0>> \in DOMAIN T
    BY <1>3 DEF At
  <2>4. PICK y : y \in Others(T, l - 1)
    BY <2>2, <2>3 DEF WellFormed
  <2> QED
    BY <1>1, <2>2, <2>4
<1> QED
  BY <1>2, <1>3

(* A row holds what a level of a tree holds. *)
IsRow(row, T, l) == DOMAIN row = At(T, l) /\ \A k \in At(T, l) : row[k] = T[<<l, k>>]

LEMMA RowAboveIs ==
  ASSUME NEW T, WellFormed(T), NEW l \in Nat, NEW row, IsRow(row, T, l),
         l > 0 \/ <<1, 0>> \notin DOMAIN T \/ Others(T, 0) # {}
  PROVE  IsRow(RowAbove(row, l + 1), T, l + 1)
<1> DEFINE up == RowAbove(row, l + 1)
           dom == {k \in DOMAIN row : DOMAIN row # {0} /\ (k = 0 \/ IsBoundary(row[k]))}
<1>0. l + 1 \in Nat \ {0} /\ (l + 1) - 1 = l /\ At(T, l) \subseteq Nat /\ 0 \in Nat
  BY Numbers
<1>1. DOMAIN up = dom /\ \A k \in dom : up[k] = <<l + 1, [j \in Group(row, k) |-> row[j]]>>
  BY DEF RowAbove
<1> HIDE DEF up
<1>2. ASSUME NEW k \in Keys PROVE k \in dom <=> k \in At(T, l + 1)
  <2>1. k # 0
    BY Numbers
  <2>2. k \in Others(T, l + 1) <=> k \in Others(T, l) /\ Boundary(T, l, k)
    BY DEF WellFormed, Shaped, Stacked
  <2>3. (k \in Others(T, l + 1) <=> k \in At(T, l + 1)) /\ (k \in Others(T, l) <=> k \in At(T, l))
    BY Numbers
  <2>4. k \in At(T, l) => DOMAIN row # {0} /\ (IsBoundary(row[k]) <=> Boundary(T, l, k))
    BY <2>1 DEF IsRow, Boundary
  <2>5. DOMAIN row = At(T, l)
    BY DEF IsRow
  <2> QED
    BY <2>1, <2>2, <2>3, <2>4, <2>5
<1>3. 0 \in dom <=> 0 \in At(T, l + 1)
  <2>1. \A i \in Nat : 0 \in At(T, i) <=> <<i, 0>> \in DOMAIN T
    BY DEF At
  <2>2. 0 \in dom <=> 0 \in At(T, l) /\ At(T, l) # {0}
    BY DEF IsRow
  <2>3. 0 \in At(T, l) => (At(T, l) # {0} <=> Others(T, l) # {})
    BY DEF Others
  <2>4. ASSUME Others(T, l) # {} PROVE 0 \in At(T, l) /\ 0 \in At(T, l + 1)
    <3>1. <<l + 1, 0>> \in DOMAIN T
      BY <2>4 DEF WellFormed
    <3>2. <<l, 0>> \in DOMAIN T
      BY <3>1 DEF WellFormed, Shaped, Contiguous
    <3> QED
      BY <1>0, <2>1, <3>1, <3>2
  <2>5. ASSUME 0 \in At(T, l + 1) PROVE Others(T, l) # {}
    <3>1. <<l + 1, 0>> \in DOMAIN T
      BY <1>0, <2>1, <2>5
    <3>2. CASE l = 0
      BY <3>1, <3>2
    <3>3. CASE l > 0
      BY <3>1, <3>3 DEF WellFormed
    <3> QED
      BY <3>2, <3>3
  <2> QED
    BY <2>2, <2>3, <2>4, <2>5
<1>4. dom = At(T, l + 1)
  <2>1. dom \subseteq Keys \cup {0} /\ At(T, l + 1) \subseteq Keys \cup {0}
    BY Numbers DEF IsRow
  <2> HIDE DEF dom
  <2> QED
    BY <1>2, <1>3, <2>1
<1>5. ASSUME NEW k \in At(T, l + 1) PROVE up[k] = T[<<l + 1, k>>]
  <2>1. k \in Nat
    BY Numbers
  <2>2. Group(row, k) = Own(T, l + 1, k)
    <3>1. Own(T, l + 1, k) = {j \in At(T, l) : /\ j >= k
                            /\ \A b \in At(T, l) : k < b /\ b <= j => ~Boundary(T, l, b)}
      BY <1>0 DEF Own
    <3>2. Group(row, k) = {j \in At(T, l) : j >= k /\
                            \A b \in At(T, l) : Boundary(T, l, b) => ~(k < b /\ b <= j)}
      <4>1. DOMAIN row = At(T, l) /\ \A b \in At(T, l) : IsBoundary(row[b]) <=> Boundary(T, l, b)
        BY DEF IsRow, Boundary
      <4> QED
        BY <4>1 DEF Group
    <3> QED
      BY <3>1, <3>2
  <2>3. \A j \in Own(T, l + 1, k) : row[j] = T[<<l, j>>]
    BY <1>0 DEF Own, IsRow
  <2>4. [j \in Group(row, k) |-> row[j]] = [j \in Own(T, l + 1, k) |-> T[<<l, j>>]]
    BY <2>2, <2>3
  <2>5. GetHash(T, l + 1, k) = <<l + 1, [j \in Own(T, l + 1, k) |-> T[<<l, j>>]]>>
    <3>1. l + 1 \in Nat
      BY <1>0
    <3>2. GetHash(T, l + 1, k) = <<l + 1, [j \in Own(T, l + 1, k) |-> T[<<(l + 1) - 1, j>>]]>>
      BY <2>1, <3>1, GetHashIs
    <3> QED
      BY <1>0, <3>2
  <2>6. Right(T, l + 1, k)
    BY <1>0 DEF WellFormed
  <2> QED
    BY <1>1, <1>4, <2>4, <2>5, <2>6 DEF Right
<1>6. IsRow(up, T, l + 1)
  BY <1>1, <1>4, <1>5 DEF IsRow
<1> QED
  BY <1>6 DEF up

(* A well-formed tree is the tree of its leaves, unless it was emptied. *)
LEMMA TreeOfLeaves ==
  ASSUME NEW T, WellFormed(T), NEW f, LeavesOf(T, f),
         <<1, 0>> \notin DOMAIN T \/ DOMAIN f # {}
  PROVE  T = TreeOf(f)
<1>1. PICK row : RowsOf(row, f)
  BY RowSteps
<1>2. MaxLevel + 1 \in Nat
  BY WriterAssumption
<1> DEFINE S == {n \in 0 .. MaxLevel + 1 : IsRow(row[n], T, n)}
<1>3. 0 \in S
  <2>1. IsRow(Leaves(f), T, 0)
    <3>1. 0 \in At(T, 0) /\ Others(T, 0) = DOMAIN f /\ T[<<0, 0>>] = AnchorHash
      BY DEF WellFormed, Shaped, Typed, At, LeavesOf
    <3>2. At(T, 0) = {0} \cup DOMAIN f
      BY <3>1 DEF Others
    <3>3. \A k \in DOMAIN f : k # 0 /\ T[<<0, k>>] = LeafHash(k, f[k])
      BY <3>1 DEF LeavesOf, Others
    <3>4. /\ DOMAIN Leaves(f) = {0} \cup DOMAIN f
          /\ \A k \in {0} \cup DOMAIN f :
               Leaves(f)[k] = IF k = 0 THEN AnchorHash ELSE LeafHash(k, f[k])
      BY DEF Leaves
    <3> QED
      BY <3>1, <3>2, <3>3, <3>4 DEF IsRow
  <2> QED
    BY <1>1, <1>2, <2>1 DEF RowsOf
<1>4. ASSUME NEW n \in 1 .. MaxLevel + 1, n - 1 \in S PROVE n \in S
  <2>1. row[n] = RowAbove(row[n - 1], n)
    BY <1>1 DEF RowsOf
  <2>2. n - 1 \in Nat /\ (n - 1) + 1 = n /\ IsRow(row[n - 1], T, n - 1)
    BY <1>2, <1>4
  <2>3. <<1, 0>> \notin DOMAIN T \/ Others(T, 0) # {}
    BY DEF LeavesOf
  <2>4. IsRow(RowAbove(row[n - 1], (n - 1) + 1), T, (n - 1) + 1)
    BY <2>2, <2>3, RowAboveIs
  <2>5. IsRow(row[n], T, n)
    BY <2>1, <2>2, <2>4
  <2> QED
    BY <1>2, <2>5
<1>5. \A l \in 0 .. MaxLevel + 1 : IsRow(row[l], T, l)
  <2>1. SUFFICES ASSUME NEW l \in 0 .. MaxLevel + 1 PROVE l \in S
    OBVIOUS
  <2>2. l \in Nat /\ \A n \in 1 .. l : n \in 1 .. MaxLevel + 1
    BY <1>2
  <2>3. \A n \in 1 .. l : n - 1 \in S => n \in S
    BY <1>4, <2>2
  <2> HIDE DEF S
  <2> QED
    BY <1>3, <2>2, <2>3, UpTo
<1> DEFINE D == UNION {{l} \X DOMAIN row[l] : l \in 0 .. MaxLevel + 1}
<1>6. TreeOf(f) = [n \in D |-> row[n[1]][n[2]]]
  BY <1>1 DEF RowsOf
<1>7. Typed(T)
  BY DEF WellFormed, Shaped
<1>8. ASSUME NEW n \in DOMAIN T
      PROVE  /\ n[1] \in 0 .. MaxLevel + 1 /\ n[2] \in At(T, n[1]) /\ n = <<n[1], n[2]>>
  <2>1. n[1] \in Nat /\ n[2] \in Keys \cup {0} /\ n = <<n[1], n[2]>>
    BY <1>7 DEF Typed
  <2>2. n[2] \in At(T, n[1])
    BY <2>1 DEF At
  <2>3. n[1] <= MaxLevel + 1
    BY <2>1, <2>2, NoHigher
  <2> QED
    BY <1>2, <2>1, <2>2, <2>3
<1>9. D = DOMAIN T
  <2>1. ASSUME NEW n \in DOMAIN T PROVE n \in D
    <3>1. n \in {n[1]} \X DOMAIN row[n[1]]
      BY <1>5, <1>8 DEF IsRow
    <3> QED
      BY <1>8, <3>1
  <2>2. ASSUME NEW n \in D PROVE n \in DOMAIN T
    <3>1. PICK l \in 0 .. MaxLevel + 1 : n \in {l} \X DOMAIN row[l]
      BY <2>2
    <3>2. n = <<l, n[2]>> /\ n[2] \in DOMAIN row[l]
      BY <3>1
    <3>3. n[2] \in At(T, l)
      BY <1>5, <3>2 DEF IsRow
    <3> QED
      BY <3>2, <3>3 DEF At
  <2> HIDE DEF D
  <2> QED
    BY <2>1, <2>2
<1> HIDE DEF D
<1>10. \A n \in DOMAIN T : row[n[1]][n[2]] = T[n]
  BY <1>5, <1>8 DEF IsRow
<1>11. T = [n \in DOMAIN T |-> T[n]]
  BY <1>7 DEF Typed
<1> QED
  BY <1>6, <1>9, <1>10, <1>11

LEMMA NewTree ==
  ASSUME NEW f, DOMAIN f = {}
  PROVE  LET T == [n \in {<<0, 0>>} |-> AnchorHash] IN WellFormed(T) /\ LeavesOf(T, f)
<1> DEFINE T == [n \in {<<0, 0>>} |-> AnchorHash]
<1>1. DOMAIN T = {<<0, 0>>} /\ T[<<0, 0>>] = AnchorHash /\ T = [n \in DOMAIN T |-> T[n]]
  OBVIOUS
<1> HIDE DEF T
<1>2. \A l, x : <<l, x>> \in DOMAIN T <=> l = 0 /\ x = 0
  BY <1>1
<1>3. \A l \in Nat : Others(T, l) = {} /\ <<l + 1, 0>> \notin DOMAIN T /\ l + 1 # 0
  BY <1>2 DEF Others, At
<1>4. Typed(T)
  <2>1. \A n \in DOMAIN T : T[n][1] = n[1]
    BY <1>1 DEF AnchorHash
  <2>2. DOMAIN T \subseteq Nat \X (Keys \cup {0})
    BY <1>1
  <2> QED
    BY <1>1, <2>1, <2>2 DEF Typed
<1>5. Stacked(T) /\ Contiguous(T)
  <2>1. \A l \in Nat : l + 1 \in Nat
    OBVIOUS
  <2> QED
    BY <1>3, <2>1 DEF Stacked, Contiguous
<1>6. \A l \in Nat \ {0} : At(T, l) = {}
  BY <1>2 DEF At
<1>7. WellFormed(T)
  BY <1>3, <1>4, <1>5, <1>6 DEF WellFormed, Shaped
<1>8. LeavesOf(T, f)
  <2>1. 0 \in Nat
    OBVIOUS
  <2> QED
    BY <1>1, <1>3, <2>1 DEF LeavesOf
<1> QED
  BY <1>7, <1>8 DEF T

LEMMA EmptiedTree ==
  ASSUME NEW T, WellFormed(T), NEW f, LeavesOf(T, f), <<1, 0>> \in DOMAIN T, DOMAIN f = {}
  PROVE  T = Anchor(TreeOf(f), 1).tree
<1> DEFINE V == [n \in {<<0, 0>>} |-> AnchorHash]
<1>1. WellFormed(V) /\ LeavesOf(V, f)
  BY NewTree
<1>2. DOMAIN V = {<<0, 0>>} /\ V[<<0, 0>>] = AnchorHash
  OBVIOUS
<1> HIDE DEF V
<1>3. V = TreeOf(f)
  <2>1. <<1, 0>> \notin DOMAIN V
    BY <1>2
  <2> QED
    BY <1>1, <2>1, TreeOfLeaves
<1>4. Anchor(V, 1).tree
        = [n \in {<<0, 0>>, <<1, 0>>} |-> IF n = <<1, 0>> THEN GetHash(V, 1, 0) ELSE V[n]]
  <2>1. DOMAIN V \cup {<<1, 0>>} = {<<0, 0>>, <<1, 0>>}
    BY <1>2
  <2> QED
    BY <2>1 DEF Anchor, SetNode
<1>5. Typed(T) /\ Stacked(T)
  BY DEF WellFormed, Shaped
<1>6. \A l \in Nat : Others(T, l) = {}
  <2>1. SUFFICES ASSUME NEW l \in Nat, NEW x \in Others(T, l) PROVE FALSE
    OBVIOUS
  <2>2. x \in Others(T, 0)
    <3>1. CASE l = 0
      BY <3>1
    <3>2. CASE l > 0
      BY <1>5, <3>2, Standing
    <3> QED
      BY <3>1, <3>2
  <2> QED
    BY <2>2 DEF LeavesOf
<1>7. \A l \in Nat : <<l, 0>> \in DOMAIN T => l = 0 \/ l = 1
  <2>1. SUFFICES ASSUME NEW l \in Nat, <<l, 0>> \in DOMAIN T, l > 1 PROVE FALSE
    OBVIOUS
  <2>2. l - 1 \in Nat \ {0} /\ (l - 1) + 1 = l
    BY <2>1
  <2>3. Others(T, l - 1) # {}
    BY <2>1, <2>2 DEF WellFormed
  <2> QED
    BY <1>6, <2>2, <2>3
<1>8. DOMAIN T = {<<0, 0>>, <<1, 0>>}
  <2>1. ASSUME NEW n \in DOMAIN T PROVE n = <<0, 0>> \/ n = <<1, 0>>
    <3>1. n[1] \in Nat /\ n[2] \in Keys \cup {0} /\ n = <<n[1], n[2]>>
      BY <1>5 DEF Typed
    <3>2. n[2] = 0
      <4>1. n[2] \in At(T, n[1])
        BY <3>1 DEF At
      <4> QED
        BY <1>6, <3>1, <4>1 DEF Others
    <3>3. n[1] = 0 \/ n[1] = 1
      BY <1>7, <3>1, <3>2
    <3> QED
      BY <3>1, <3>2, <3>3
  <2>2. <<0, 0>> \in DOMAIN T
    BY <1>5 DEF Typed
  <2> QED
    BY <2>1, <2>2
<1>9. T[<<0, 0>>] = V[<<0, 0>>]
  BY <1>2 DEF LeavesOf
<1>10. T[<<1, 0>>] = GetHash(V, 1, 0)
  <2>1. 1 \in Nat \ {0} /\ 1 - 1 = 0 /\ 0 \in Nat /\ 1 \in Nat
    OBVIOUS
  <2>2. Right(T, 1, 0)
    <3>1. 0 \in At(T, 1)
      BY DEF At
    <3> QED
      BY <2>1, <3>1 DEF WellFormed
  <2>3. SameLevel(T, V, 0)
    <3>1. \A x \in Keys \cup {0} : <<0, x>> \in DOMAIN T <=> x = 0
      BY <1>8
    <3>2. \A x \in Keys \cup {0} : <<0, x>> \in DOMAIN V <=> x = 0
      BY <1>2
    <3>3. At(T, 0) = {0} /\ At(V, 0) = {0}
      BY <3>1, <3>2 DEF At
    <3> QED
      BY <1>9, <3>3 DEF SameLevel
  <2>4. GetHash(T, 1, 0) = GetHash(V, 1, 0)
    <3>1. ASSUME NEW l \in Nat, l = 1 PROVE GetHash(T, l, 0) = GetHash(V, l, 0)
      <4>1. l - 1 = 0
        BY <3>1
      <4>2. SameLevel(T, V, l - 1)
        BY <2>3, <4>1
      <4> QED
        BY <2>1, <4>2, SameBelow
    <3> QED
      BY <2>1, <3>1
  <2> QED
    BY <2>2, <2>4 DEF Right
<1>11. T = [n \in {<<0, 0>>, <<1, 0>>} |-> IF n = <<1, 0>> THEN GetHash(V, 1, 0) ELSE V[n]]
  <2>1. T = [n \in DOMAIN T |-> T[n]]
    BY <1>5 DEF Typed
  <2>2. \A n \in {<<0, 0>>, <<1, 0>>} :
          T[n] = IF n = <<1, 0>> THEN GetHash(V, 1, 0) ELSE V[n]
    BY <1>9, <1>10
  <2> QED
    BY <1>8, <2>1, <2>2
<1> QED
  BY <1>3, <1>4, <1>11

-----------------------------------------------------------------------------
LEMMA RootIs ==
  ASSUME NEW T, WellFormed(T)
  PROVE  \E top \in Nat : /\ Root(T) = <<top, 0>> /\ At(T, top) = {0}
                          /\ \A l \in Nat : l <= top => 0 \in At(T, l)
<1> DEFINE S == {n[1] : n \in DOMAIN T}
           top == Max(S)
<1>1. Typed(T) /\ Contiguous(T) /\ MaxLevel + 1 \in Nat
  BY WriterAssumption DEF WellFormed, Shaped
<1>2. ASSUME NEW n \in DOMAIN T
      PROVE  n[1] \in Nat /\ n[2] \in At(T, n[1]) /\ n[1] <= MaxLevel + 1
  <2>1. n[1] \in Nat /\ n[2] \in Keys \cup {0} /\ n = <<n[1], n[2]>>
    BY <1>1 DEF Typed
  <2>2. n[2] \in At(T, n[1])
    BY <2>1 DEF At
  <2>3. n[1] <= MaxLevel + 1
    BY <2>1, <2>2, NoHigher
  <2> QED
    BY <2>1, <2>2, <2>3
<1>3. 0 \in S
  BY <1>1 DEF Typed
<1>4. S \subseteq Nat /\ \A x \in S : x <= MaxLevel + 1
  BY <1>2
<1>5. \A l, x : <<l, x>> \in DOMAIN T => l \in S
  <2>1. ASSUME NEW l, NEW x, <<l, x>> \in DOMAIN T PROVE l \in S
    <3>1. <<l, x>>[1] = l
      OBVIOUS
    <3> QED
      BY <2>1, <3>1
  <2> QED
    BY <2>1
<1>6. PICK n \in DOMAIN T : n[1] = top /\ \A x \in S : x <= top
  <2>1. Max(S) \in S /\ \A x \in S : x <= Max(S)
    <3> HIDE DEF S
    <3> QED
      BY <1>1, <1>3, <1>4, LastOne
  <2>2. \A x \in S : \E n \in DOMAIN T : n[1] = x
    OBVIOUS
  <2> HIDE DEF S
  <2> QED
    BY <2>1, <2>2
<1> HIDE DEF S
<1>7. Root(T) = <<top, Max(At(T, top))>>
  BY DEF Root, S
<1> HIDE DEF top
<1>8. top \in Nat /\ top + 1 \in Nat /\ n[2] \in At(T, top)
  BY <1>2, <1>6
<1>9. Others(T, top) = {}
  <2> SUFFICES ASSUME Others(T, top) # {} PROVE FALSE
    OBVIOUS
  <2>1. <<top + 1, 0>> \in DOMAIN T
    BY <1>8 DEF WellFormed
  <2>2. top + 1 \in S
    BY <1>5, <2>1
  <2> QED
    BY <1>6, <1>8, <2>2
<1>10. At(T, top) = {0}
  BY <1>8, <1>9 DEF Others
<1>11. Max({0}) = 0
  <2>1. {0} \subseteq Nat /\ 0 \in {0} /\ \A x \in {0} : x <= 0
    OBVIOUS
  <2>2. Max({0}) \in {0}
    BY <2>1, LastOne
  <2> QED
    BY <2>2
<1>12. \A l \in Nat : l <= top => 0 \in At(T, l)
  <2>1. <<top, 0>> \in DOMAIN T
    BY <1>10 DEF At
  <2>2. \A l \in Nat : l <= top => <<l, 0>> \in DOMAIN T
    BY <1>1, <1>8, <2>1, AnchorsBelow
  <2> QED
    BY <2>2 DEF At
<1> QED
  BY <1>7, <1>8, <1>10, <1>11, <1>12

(* getChildren yields what the node was hashed from. *)
LEMMA ChildrenAre ==
  ASSUME NEW T, NEW l \in Nat, NEW k \in Nat
  PROVE  GetChildren(T, l, k) = Own(T, l, k)
<1>1. At(T, l - 1) \subseteq Nat
  BY Numbers
<1>2. \A b \in At(T, l - 1) : Boundary(T, l - 1, b) <=> IsBoundary(T[<<l - 1, b>>])
  BY DEF Boundary
<1>3. GetChildren(T, l, k) = {j \in At(T, l - 1) : j >= k /\
        \A b \in {b \in At(T, l - 1) : b >= k} : b <= j /\ Boundary(T, l - 1, b) => b = k}
  BY <1>2 DEF GetChildren
<1>4. Own(T, l, k) = {j \in At(T, l - 1) : j >= k /\
        \A b \in At(T, l - 1) : k < b /\ b <= j => ~Boundary(T, l - 1, b)}
  BY DEF Own
<1>5. ASSUME NEW j \in At(T, l - 1)
      PROVE  (\A b \in {b \in At(T, l - 1) : b >= k} : b <= j /\ Boundary(T, l - 1, b) => b = k)
             <=> (\A b \in At(T, l - 1) : k < b /\ b <= j => ~Boundary(T, l - 1, b))
  <2>1. \A b \in At(T, l - 1) : b >= k <=> k < b \/ b = k
    BY <1>1
  <2>2. \A b \in At(T, l - 1) : k < b => b # k
    BY <1>1
  <2> QED
    BY <2>1, <2>2
<1> QED
  BY <1>3, <1>4, <1>5

LEMMA OwnApart ==
  ASSUME NEW T, Stacked(T), NEW l \in Nat \ {0}, NEW a \in At(T, l), NEW b \in At(T, l), a # b
  PROVE  Own(T, l, a) \cap Own(T, l, b) = {}
<1>1. ASSUME NEW x \in At(T, l), NEW y \in At(T, l), x < y PROVE Own(T, l, x) \cap Own(T, l, y) = {}
  <2>1. x \in Nat /\ y \in Nat /\ y # 0
    <3>1. x \in Nat /\ y \in Nat
      BY Numbers
    <3> QED
      BY <1>1, <3>1
  <2>2. y \in At(T, l - 1) /\ Boundary(T, l - 1, y)
    <3>1. l - 1 \in Nat /\ (l - 1) + 1 = l
      OBVIOUS
    <3>2. y \in Others(T, l)
      BY <2>1 DEF Others
    <3>3. y \in Others(T, l - 1) /\ Boundary(T, l - 1, y)
      BY <3>1, <3>2 DEF Stacked
    <3> QED
      BY <3>3, Numbers
  <2>3. SUFFICES ASSUME NEW j \in Own(T, l, x), j \in Own(T, l, y) PROVE FALSE
    OBVIOUS
  <2>4. j >= y
    BY <2>3 DEF Own
  <2>5. y <= j
    <3>1. j \in Nat
      BY <2>3, Numbers DEF Own
    <3> QED
      BY <2>1, <2>4, <3>1
  <2> QED
    BY <1>1, <2>2, <2>3, <2>5 DEF Own
<1>2. a < b \/ b < a
  BY Numbers
<1> QED
  BY <1>1, <1>2

(* Every node of a level is a child of one of the level above. *)
LEMMA OwnAll ==
  ASSUME NEW T, WellFormed(T), NEW l \in Nat, 0 \in At(T, l), 0 \in At(T, l + 1)
  PROVE  UNION {GetChildren(T, l + 1, k) : k \in At(T, l + 1)} = At(T, l)
<1>1. /\ l + 1 \in Nat /\ (l + 1) - 1 = l /\ At(T, l) \subseteq Nat /\ At(T, l + 1) \subseteq Nat
      /\ Stacked(T)
  BY Numbers DEF WellFormed, Shaped
<1>2. ASSUME NEW k \in At(T, l + 1)
      PROVE  GetChildren(T, l + 1, k) =
               {j \in At(T, l) : j >= k /\ \A b \in At(T, l) : k < b /\ b <= j => ~Boundary(T, l, b)}
  <2>1. k \in Nat
    BY <1>1
  <2>2. GetChildren(T, l + 1, k) = Own(T, l + 1, k)
    BY <1>1, <2>1, ChildrenAre
  <2> QED
    BY <1>1, <2>2 DEF Own
<1>3. ASSUME NEW j \in At(T, l) PROVE \E k \in At(T, l + 1) : j \in GetChildren(T, l + 1, k)
  <2> DEFINE S == {k \in At(T, l) : k <= j /\ (k = 0 \/ Boundary(T, l, k))}
             s == Max(S)
  <2>1. j \in Nat /\ 0 \in S /\ S \subseteq Nat /\ \A x \in S : x <= j
    BY <1>1
  <2>2. s \in S /\ \A x \in S : x <= s
    <3> HIDE DEF S
    <3> QED
      BY <2>1, LastOne
  <2> HIDE DEF s
  <2>3. s \in At(T, l) /\ s \in Nat /\ s <= j /\ (s = 0 \/ Boundary(T, l, s))
    BY <2>1, <2>2
  <2>4. s \in At(T, l + 1)
    <3>1. CASE s = 0
      BY <3>1
    <3>2. CASE s # 0
      <4>1. s \in Others(T, l)
        BY <2>3, <3>2 DEF Others
      <4>2. s \in Others(T, l + 1)
        BY <1>1, <2>3, <3>2, <4>1 DEF Stacked
      <4> QED
        BY <4>2 DEF Others
    <3> QED
      BY <3>1, <3>2
  <2>5. ASSUME NEW b \in At(T, l), s < b, b <= j PROVE ~Boundary(T, l, b)
    <3>1. b \in Nat
      BY <1>1
    <3>2. b \notin S
      BY <2>2, <2>3, <2>5, <3>1
    <3> QED
      BY <2>5, <3>2
  <2>6. j \in GetChildren(T, l + 1, s)
    <3>1. j >= s
      BY <2>1, <2>3
    <3> QED
      BY <1>2, <2>4, <2>5, <3>1
  <2> QED
    BY <2>4, <2>6
<1>4. \A k \in At(T, l + 1) : GetChildren(T, l + 1, k) \subseteq At(T, l)
  BY <1>2
<1> QED
  BY <1>3, <1>4

LEMMA DescentIs ==
  ASSUME NEW T, WellFormed(T)
  PROVE  Descent(T) = At(T, 0)
<1>1. PICK top \in Nat : /\ Root(T) = <<top, 0>> /\ At(T, top) = {0}
                         /\ \A l \in Nat : l <= top => 0 \in At(T, l)
  BY RootIs
<1>2. Root(T)[1] = top /\ Root(T)[2] = 0
  BY <1>1
<1>3. PICK reached : Descends(reached, T)
  BY <1>2, DescentSteps
<1>4. /\ reached[0] = {0} /\ reached[top] = Descent(T)
      /\ \A d \in 1 .. top :
           reached[d] = UNION {GetChildren(T, top - d + 1, k) : k \in reached[d - 1]}
  BY <1>2, <1>3 DEF Descends
<1> DEFINE S == {d \in 0 .. top : reached[d] = At(T, top - d)}
<1>5. 0 \in S
  <2>1. top - 0 = top /\ 0 \in 0 .. top
    OBVIOUS
  <2> QED
    BY <1>1, <1>4, <2>1
<1>6. ASSUME NEW d \in 1 .. top, d - 1 \in S PROVE d \in S
  <2> DEFINE l == top - d
  <2>1. l \in Nat /\ l + 1 \in Nat /\ l <= top /\ l + 1 <= top /\ top - (d - 1) = l + 1 /\ d \in 0 .. top
    OBVIOUS
  <2>2. reached[d - 1] = At(T, l + 1)
    BY <1>6, <2>1
  <2>3. reached[d] = UNION {GetChildren(T, l + 1, k) : k \in At(T, l + 1)}
    BY <1>4, <2>2
  <2>4. 0 \in At(T, l) /\ 0 \in At(T, l + 1)
    BY <1>1, <2>1
  <2> HIDE DEF l
  <2>5. reached[d] = At(T, l)
    BY <2>1, <2>3, <2>4, OwnAll
  <2> QED
    BY <2>1, <2>5 DEF l
<1>7. top \in S
  <2> HIDE DEF S
  <2> QED
    BY <1>5, <1>6, UpTo
<1>8. top - top = 0
  OBVIOUS
<1> QED
  BY <1>4, <1>7, <1>8

-----------------------------------------------------------------------------
(* Between changes the store is a well-formed tree of the entries. *)
WriterInv == WellFormed(nodes) /\ LeavesOf(nodes, content)

LEMMA WriterStart == WriterInit => WriterInv
<1> SUFFICES ASSUME WriterInit PROVE WriterInv
  OBVIOUS
<1>1. nodes = [n \in {<<0, 0>>} |-> AnchorHash] /\ content = <<>>
  BY DEF WriterInit
<1>2. DOMAIN content = {}
  BY <1>1
<1> QED
  BY <1>1, <1>2, NewTree DEF WriterInv

LEMMA WriterStep == WriterInv /\ [WriterNext]_writerVars => WriterInv'
<1> SUFFICES ASSUME WriterInv, [WriterNext]_writerVars PROVE WriterInv'
  OBVIOUS
<1>1. WellFormed(nodes) /\ LeavesOf(nodes, content)
  BY DEF WriterInv
<1>2. ASSUME NEW k \in Keys, DeleteEntry(k) PROVE WriterInv'
  <2>1. nodes' = Delete(nodes, k) /\ content' = Changed(content, [key |-> k, value |-> NoValue])
    BY <1>2 DEF DeleteEntry
  <2> QED
    BY <1>1, <2>1, DeleteIs DEF WriterInv
<1>3. ASSUME NEW k \in Keys, NEW v \in Values, SetEntry(k, v) PROVE WriterInv'
  <2>1. nodes' = Set(nodes, k, v) /\ content' = Changed(content, [key |-> k, value |-> v])
    BY <1>3 DEF SetEntry
  <2>2. v # NoValue
    BY WriterAssumption DEF NoValue
  <2> QED
    BY <1>1, <2>1, <2>2, SetIs DEF WriterInv
<1>4. ASSUME NEW c \in Change, NEW d \in Change, IntegrateChanges(c, d) PROVE WriterInv'
  <2>1. nodes' = Apply(Apply(nodes, c), d) /\ content' = Changed(Changed(content, c), d)
    BY <1>4 DEF IntegrateChanges
  <2>2. WellFormed(Apply(nodes, c)) /\ LeavesOf(Apply(nodes, c), Changed(content, c))
    BY <1>1, ApplyIs
  <2>3. WellFormed(Apply(Apply(nodes, c), d))
        /\ LeavesOf(Apply(Apply(nodes, c), d), Changed(Changed(content, c), d))
    BY <2>2, ApplyIs
  <2> QED
    BY <2>1, <2>3 DEF WriterInv
<1>5. CASE UNCHANGED writerVars
  BY <1>1, <1>5 DEF WriterInv, writerVars
<1> QED
  BY <1>2, <1>3, <1>4, <1>5 DEF WriterNext

(* Between changes every level of the tree has the boundaries of the one below,
   and an anchor if that one has other nodes; the hash of each node is that of
   the nodes up to the next boundary; and the leaves are the entries. *)
THEOREM TreeOfEntries == WriterSpec => []WriterInv
<1> QED
  BY WriterStart, WriterStep, PTL DEF WriterSpec

LEMMA InvIndependent == WriterInv => HistoryIndependent
<1> SUFFICES ASSUME WriterInv PROVE HistoryIndependent
  OBVIOUS
<1>1. WellFormed(nodes) /\ LeavesOf(nodes, content)
  BY DEF WriterInv
<1>2. CASE <<1, 0>> \notin DOMAIN nodes \/ DOMAIN content # {}
  <2>1. nodes = TreeOf(content)
    BY <1>1, <1>2, TreeOfLeaves
  <2> QED
    BY <2>1 DEF HistoryIndependent
<1>3. CASE <<1, 0>> \in DOMAIN nodes /\ DOMAIN content = {}
  <2>1. nodes = Anchor(TreeOf(content), 1).tree
    BY <1>1, <1>3, EmptiedTree
  <2> QED
    BY <1>3, <2>1 DEF HistoryIndependent
<1> QED
  BY <1>2, <1>3

(* Whatever keys are set and deleted in whatever order, and whichever hashes are
   small, the store holds the tree that the entries determine. *)
THEOREM OneTreePerContent == WriterSpec => []HistoryIndependent
<1> QED
  BY TreeOfEntries, InvIndependent, PTL

LEMMA InvReaches == WriterInv => DescentReachesAll
<1> SUFFICES ASSUME WriterInv PROVE DescentReachesAll
  OBVIOUS
<1>1. WellFormed(nodes) /\ LeavesOf(nodes, content) /\ Typed(nodes) /\ Stacked(nodes)
  BY DEF WriterInv, WellFormed, Shaped
<1>2. Root(nodes)[2] = 0
  <2>1. PICK top \in Nat : Root(nodes) = <<top, 0>>
    BY <1>1, RootIs
  <2> QED
    BY <2>1
<1>3. Descent(nodes) = {0} \cup DOMAIN content
  <2>1. 0 \in At(nodes, 0)
    BY <1>1 DEF Typed, At
  <2>2. At(nodes, 0) = {0} \cup Others(nodes, 0)
    BY <2>1 DEF Others
  <2>3. Descent(nodes) = At(nodes, 0)
    BY <1>1, DescentIs
  <2> QED
    BY <1>1, <2>2, <2>3 DEF LeavesOf
<1>4. ASSUME NEW n \in DOMAIN nodes, n[1] > 0
      PROVE  /\ nodes[n][2] = [k \in GetChildren(nodes, n[1], n[2]) |-> nodes[<<n[1] - 1, k>>]]
             /\ \A m \in DOMAIN nodes : m[1] = n[1] /\ m # n =>
                  GetChildren(nodes, n[1], n[2]) \cap GetChildren(nodes, m[1], m[2]) = {}
  <2> DEFINE l == n[1]  x == n[2]
  <2>0. ASSUME NEW m \in DOMAIN nodes
        PROVE  /\ m[1] \in Nat /\ m[2] \in Nat /\ m = <<m[1], m[2]>> /\ m[2] \in At(nodes, m[1])
               /\ GetChildren(nodes, m[1], m[2]) = Own(nodes, m[1], m[2])
    <3>1. m[1] \in Nat /\ m[2] \in Keys \cup {0} /\ m = <<m[1], m[2]>>
      BY <1>1 DEF Typed
    <3>2. m[2] \in At(nodes, m[1])
      BY <3>1 DEF At
    <3>3. m[2] \in Nat
      BY <3>2, Numbers
    <3> QED
      BY <3>1, <3>2, <3>3, ChildrenAre
  <2>1. l \in Nat \ {0} /\ x \in Nat /\ n = <<l, x>> /\ x \in At(nodes, l)
        /\ GetChildren(nodes, l, x) = Own(nodes, l, x)
    BY <1>4, <2>0
  <2>2. nodes[n] = <<l, [k \in Own(nodes, l, x) |-> nodes[<<l - 1, k>>]]>>
    <3>1. Right(nodes, l, x)
      BY <1>1, <2>1 DEF WellFormed
    <3>2. GetHash(nodes, l, x) = <<l, [k \in Own(nodes, l, x) |-> nodes[<<l - 1, k>>]]>>
      BY <2>1, GetHashIs
    <3> QED
      BY <2>1, <3>1, <3>2 DEF Right
  <2>3. nodes[n][2] = [k \in GetChildren(nodes, l, x) |-> nodes[<<l - 1, k>>]]
    BY <2>1, <2>2
  <2>4. ASSUME NEW m \in DOMAIN nodes, m[1] = l, m # n
        PROVE  GetChildren(nodes, l, x) \cap GetChildren(nodes, m[1], m[2]) = {}
    <3> DEFINE y == m[2]
    <3>1. y \in At(nodes, l) /\ y # x /\ GetChildren(nodes, m[1], y) = Own(nodes, l, y)
      BY <2>0, <2>1, <2>4
    <3> HIDE DEF l, x, y
    <3>2. Own(nodes, l, x) \cap Own(nodes, l, y) = {}
      BY <1>1, <2>1, <3>1, OwnApart
    <3> QED
      BY <2>1, <3>1, <3>2 DEF y
  <2> QED
    BY <2>3, <2>4
<1> QED
  BY <1>2, <1>3, <1>4 DEF DescentReachesAll

(* A reader that descends from the root by getChildren finds each hash to be
   that of the children, and comes to every entry, and to each node once. *)
THEOREM EveryEntryFound == WriterSpec => []DescentReachesAll
<1> QED
  BY TreeOfEntries, InvReaches, PTL
=============================================================================
