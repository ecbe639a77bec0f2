---------------------------- MODULE Hybrid_proofs ----------------------------
(***************************************************************************)
(* Proofs about the hybrid source: its jobs run one at a time in the order *)
(* they joined the chain, the two parts of transactions are committed in   *)
(* the same order, and the root that is kept is the current one, for any   *)
(* number of calls, however they fail.                                     *)
(***************************************************************************)
EXTENDS Hybrid, FiniteSetTheorems, TLAPS

-----------------------------------------------------------------------------
(* The inductive invariant. *)
Typed ==
  /\ kind \in [Ids -> {"local", "durable", "merge"}]
  /\ step \in [Ids -> Steps]
  /\ ephemeral \in Seq(Ids) /\ durable \in Seq(Ids)
  /\ pointer \in 0 .. Len(durable)
  /\ writable \in Ids \cup {0} /\ waitsFor \in [Ids -> Ids \cup {0}]
  /\ jobs \in Nat /\ ticket \in [Ids -> Nat]

(* The last job holds the last ticket; tickets are given once and without a
   gap, and a job waits for the one with the ticket before. *)
Chained ==
  /\ \A c \in Ids : ticket[c] <= jobs
  /\ IF jobs = 0 THEN writable = 0 ELSE writable # 0 /\ ticket[writable] = jobs
  /\ \A c, d \in Ids : ticket[c] # 0 /\ ticket[c] = ticket[d] => c = d
  /\ \A u \in 1 .. jobs : \E c \in Ids : ticket[c] = u
  /\ \A c \in Ids : ticket[c] # 0 =>
       IF ticket[c] = 1 THEN waitsFor[c] = 0
       ELSE waitsFor[c] # 0 /\ ticket[waitsFor[c]] = ticket[c] - 1

(* What is in front of a job that was begun has settled. *)
Queued == \A c, d \in Ids :
  ticket[d] # 0 /\ ticket[d] < ticket[c] /\ step[c] # "waiting" => Settled(d)

(* What a call is tells which steps it takes. *)
Phased == \A c \in Ids :
  /\ step[c] \in {"new", "begun"} => ticket[c] = 0
  /\ step[c] \in Job => ticket[c] # 0
  /\ ticket[c] # 0 => kind[c] # "local"
  /\ step[c] \in {"writing", "pointing"} => kind[c] = "durable"
  /\ step[c] = "merging" => kind[c] = "merge"

(* The durable source is in the order of the chain. *)
DurableInOrder ==
  /\ \A n \in DOMAIN durable :
       ticket[durable[n]] # 0 /\ step[durable[n]] \notin {"waiting", "writing", "merging"}
  /\ \A i, j \in DOMAIN durable : i < j => ticket[durable[i]] < ticket[durable[j]]
  /\ \A c \in Ids : step[c] = "pointing" => \E n \in DOMAIN durable : durable[n] = c

(* So is the ephemeral source, which holds what the chain does. *)
EphemeralInOrder ==
  /\ \A n \in DOMAIN ephemeral : step[ephemeral[n]] \notin {"new", "begun"}
  /\ \A i, j \in DOMAIN ephemeral :
       i < j /\ ticket[ephemeral[i]] # 0 /\ ticket[ephemeral[j]] # 0
         => ticket[ephemeral[i]] < ticket[ephemeral[j]]
  /\ \A c \in Ids : kind[c] = "durable" /\ ticket[c] # 0
       => \E n \in DOMAIN ephemeral : ephemeral[n] = c

IInv ==
  Typed /\ Chained /\ Queued /\ Phased /\ DurableInOrder /\ EphemeralInOrder /\ RootKept

-----------------------------------------------------------------------------
THEOREM InvInit == Init => IInv
<1> SUFFICES ASSUME Init PROVE IInv
  OBVIOUS
<1>1. Len(durable) = 0 /\ DOMAIN durable = {} /\ DOMAIN ephemeral = {}
  BY DEF Init
<1>2. Typed
  BY <1>1 DEF Init, Typed, Steps
<1>3. Chained
  BY DEF Init, Chained, Ids
<1>4. Queued /\ Phased
  BY DEF Init, Queued, Phased, Job
<1>5. DurableInOrder /\ EphemeralInOrder
  BY <1>1 DEF Init, DurableInOrder, EphemeralInOrder
<1>6. RootKept
  BY <1>1 DEF Init, RootKept
<1>7. QED
  BY <1>2, <1>3, <1>4, <1>5, <1>6 DEF IInv

-----------------------------------------------------------------------------
(* A call that joins the chain takes the next ticket. *)
LEMMA EnqueueChains ==
  ASSUME Typed, Chained, NEW c \in Ids, ticket[c] = 0, Enqueue(c)
  PROVE  Chained'
<1>1. /\ jobs' = jobs + 1 /\ jobs \in Nat /\ writable' = c /\ c # 0
      /\ ticket' = [ticket EXCEPT ![c] = jobs + 1]
      /\ waitsFor' = [waitsFor EXCEPT ![c] = writable]
      /\ ticket \in [Ids -> Nat] /\ waitsFor \in [Ids -> Ids \cup {0}]
      /\ writable \in Ids \cup {0}
  BY DEF Enqueue, Typed, Ids
<1>2. \A d \in Ids : ticket'[d] <= jobs'
  BY <1>1 DEF Chained
<1>3. IF jobs' = 0 THEN writable' = 0 ELSE writable' # 0 /\ ticket'[writable'] = jobs'
  BY <1>1
<1>4. \A a, d \in Ids : ticket'[a] # 0 /\ ticket'[a] = ticket'[d] => a = d
  BY <1>1 DEF Chained
<1>5. ASSUME NEW u \in 1 .. jobs'
      PROVE  \E d \in Ids : ticket'[d] = u
  <2>1. CASE u = jobs + 1
    BY <1>1, <2>1
  <2>2. CASE u # jobs + 1
    <3>1. u \in 1 .. jobs
      BY <1>1, <2>2
    <3>2. PICK d \in Ids : ticket[d] = u
      BY <3>1 DEF Chained
    <3>3. d # c
      BY <3>1, <3>2
    <3>4. QED
      BY <1>1, <3>2, <3>3
  <2>3. QED
    BY <2>1, <2>2
<1>6. ASSUME NEW d \in Ids, ticket'[d] # 0
      PROVE  IF ticket'[d] = 1 THEN waitsFor'[d] = 0
             ELSE waitsFor'[d] # 0 /\ ticket'[waitsFor'[d]] = ticket'[d] - 1
  <2>1. CASE d = c
    <3>1. ticket'[d] = jobs + 1 /\ waitsFor'[d] = writable
      BY <1>1, <2>1
    <3>2. CASE jobs = 0
      BY <3>1, <3>2 DEF Chained
    <3>3. CASE jobs # 0
      <4>1. writable # 0 /\ ticket[writable] = jobs
        BY <3>3 DEF Chained
      <4>2. writable \in Ids /\ writable # c
        BY <4>1, <1>1, <3>3
      <4>3. ticket'[writable] = jobs
        BY <4>1, <4>2, <1>1
      <4>4. QED
        BY <3>1, <3>3, <4>1, <4>3, <1>1
    <3>4. QED
      BY <3>2, <3>3
  <2>2. CASE d # c
    <3>1. ticket'[d] = ticket[d] /\ waitsFor'[d] = waitsFor[d] /\ ticket[d] # 0
      BY <1>1, <1>6, <2>2
    <3>2. IF ticket[d] = 1 THEN waitsFor[d] = 0
          ELSE waitsFor[d] # 0 /\ ticket[waitsFor[d]] = ticket[d] - 1
      BY <3>1 DEF Chained
    <3>3. CASE ticket[d] = 1
      BY <3>1, <3>2, <3>3
    <3>4. CASE ticket[d] # 1
      <4>1. waitsFor[d] \in Ids /\ ticket[waitsFor[d]] = ticket[d] - 1
        BY <3>2, <3>4, <1>1
      <4>2. ticket[waitsFor[d]] # 0
        BY <4>1, <3>1, <3>4, <1>1
      <4>3. waitsFor[d] # c
        BY <4>2
      <4>4. ticket'[waitsFor[d]] = ticket[waitsFor[d]]
        BY <1>1, <4>1, <4>3
      <4>5. QED
        BY <3>1, <3>2, <3>4, <4>1, <4>4
    <3>5. QED
      BY <3>3, <3>4
  <2>3. QED
    BY <2>1, <2>2
<1>7. QED
  BY <1>2, <1>3, <1>4, <1>5, <1>6 DEF Chained

LEMMA EnqueueQueues ==
  ASSUME Typed, Chained, Queued, NEW c \in Ids, ticket[c] = 0, Enqueue(c)
  PROVE  Queued'
<1> SUFFICES ASSUME NEW a \in Ids, NEW d \in Ids,
                    ticket'[d] # 0, ticket'[d] < ticket'[a], step'[a] # "waiting"
             PROVE  Settled(d)'
  BY DEF Queued
<1>1. /\ ticket' = [ticket EXCEPT ![c] = jobs + 1] /\ jobs \in Nat
      /\ step' = [step EXCEPT ![c] = "waiting"]
      /\ ticket \in [Ids -> Nat] /\ step \in [Ids -> Steps]
  BY DEF Enqueue, Goes, Typed
<1>2. a # c
  BY <1>1
<1>3. d # c
  BY <1>1, <1>2 DEF Chained
<1>4. Settled(d)
  BY <1>1, <1>2, <1>3 DEF Queued
<1>5. QED
  BY <1>1, <1>3, <1>4 DEF Settled

(* A call that goes on leaves the order as it is, provided that a settled one
   stays settled and a waiting one is the first that is not. *)
LEMMA GoingQueues ==
  ASSUME Typed, Queued, NEW c \in Ids, NEW s, Goes(c, s), UNCHANGED chain,
         Settled(c) => s \in {"announcing", "returned", "failed"},
         step[c] = "waiting" =>
           \A d \in Ids : ticket[d] # 0 /\ ticket[d] < ticket[c] => Settled(d)
  PROVE  Queued'
<1> SUFFICES ASSUME NEW a \in Ids, NEW d \in Ids,
                    ticket'[d] # 0, ticket'[d] < ticket'[a], step'[a] # "waiting"
             PROVE  Settled(d)'
  BY DEF Queued
<1>1. /\ ticket' = ticket /\ step' = [step EXCEPT ![c] = s] /\ step \in [Ids -> Steps]
  BY DEF Goes, Typed, chain
<1>2. Settled(d)
  <2>1. CASE a = c /\ step[c] = "waiting"
    BY <1>1, <2>1
  <2>2. CASE ~(a = c /\ step[c] = "waiting")
    <3>1. step[a] # "waiting"
      BY <1>1, <2>2
    <3>2. QED
      BY <1>1, <3>1 DEF Queued
  <2>3. QED
    BY <2>1, <2>2
<1>3. QED
  BY <1>1, <1>2 DEF Settled

(* When a job is begun, all in front of it have settled. *)
LEMMA FirstInChain ==
  ASSUME Typed, Chained, Queued, NEW c \in Ids, ticket[c] # 0, Settled(waitsFor[c]),
         NEW d \in Ids, ticket[d] # 0, ticket[d] < ticket[c]
  PROVE  Settled(d)
<1>1. ticket[c] \in Nat /\ ticket[d] \in Nat
  BY DEF Typed
<1>2. waitsFor[c] # 0 /\ ticket[waitsFor[c]] = ticket[c] - 1
  BY <1>1 DEF Chained
<1>3. waitsFor[c] \in Ids
  BY <1>2 DEF Typed
<1>4. CASE ticket[d] = ticket[c] - 1
  <2>1. ticket[waitsFor[c]] = ticket[d] /\ ticket[d] # 0
    BY <1>2, <1>4
  <2>2. d = waitsFor[c]
    BY <1>3, <2>1, Zenon DEF Chained
  <2>3. QED
    BY <2>2
<1>5. CASE ticket[d] # ticket[c] - 1
  <2>1. ticket[d] < ticket[waitsFor[c]]
    BY <1>1, <1>2, <1>5
  <2>2. step[waitsFor[c]] # "waiting"
    BY <1>2 DEF Settled
  <2>3. QED
    BY <1>3, <2>1, <2>2 DEF Queued
<1>6. QED
  BY <1>4, <1>5

-----------------------------------------------------------------------------
(* Where a job that works stands in the durable source: behind all others. *)
LEMMA WorkingIsLast ==
  ASSUME IInv, NEW c \in Ids, step[c] \in {"writing", "pointing", "merging"},
         NEW n \in DOMAIN durable, durable[n] # c
  PROVE  ticket[durable[n]] < ticket[c]
<1>1. durable[n] \in Ids /\ ticket[durable[n]] \in Nat /\ ticket[c] \in Nat
  BY DEF IInv, Typed
<1>2. ticket[durable[n]] # 0 /\ step[durable[n]] # "waiting"
  BY DEF IInv, DurableInOrder
<1>3. ticket[c] # 0 /\ ~Settled(c)
  BY DEF IInv, Phased, Job, Settled, Ids
<1>4. ~(ticket[c] < ticket[durable[n]])
  BY <1>1, <1>2, <1>3 DEF IInv, Queued
<1>5. ticket[c] # ticket[durable[n]]
  BY <1>1, <1>3 DEF IInv, Chained
<1>6. QED
  BY <1>1, <1>4, <1>5

LEMMA AppendEntries ==
  ASSUME NEW S, NEW log \in Seq(S), NEW c \in S
  PROVE  /\ Append(log, c) \in Seq(S)
         /\ Len(Append(log, c)) = Len(log) + 1
         /\ DOMAIN Append(log, c) = DOMAIN log \cup {Len(log) + 1}
         /\ \A n \in DOMAIN log : Append(log, c)[n] = log[n]
         /\ Append(log, c)[Len(log) + 1] = c
         /\ \A n \in DOMAIN log : n \in Nat /\ 1 <= n /\ n <= Len(log)
OBVIOUS

(* The durable source stays in the order of the chain when a job appends to
   it. *)
LEMMA DurableAppends ==
  ASSUME IInv, NEW c \in Ids, step[c] \in {"writing", "merging"}, NEW s,
         s \notin {"waiting", "writing", "merging"},
         durable' = Append(durable, c), Goes(c, s), UNCHANGED chain
  PROVE  DurableInOrder'
<1>1. /\ step' = [step EXCEPT ![c] = s] /\ ticket' = ticket /\ step \in [Ids -> Steps]
      /\ durable \in Seq(Ids) /\ ticket \in [Ids -> Nat]
  BY DEF Goes, chain, IInv, Typed
<1>2. /\ DOMAIN durable' = DOMAIN durable \cup {Len(durable) + 1}
      /\ \A n \in DOMAIN durable : durable'[n] = durable[n] /\ durable[n] \in Ids
      /\ durable'[Len(durable) + 1] = c
      /\ \A n \in DOMAIN durable : n \in Nat /\ 1 <= n /\ n <= Len(durable)
  BY <1>1, AppendEntries
<1>3. \A n \in DOMAIN durable : durable[n] # c
  BY DEF IInv, DurableInOrder
<1>4. ASSUME NEW n \in DOMAIN durable'
      PROVE  /\ ticket'[durable'[n]] # 0
             /\ step'[durable'[n]] \notin {"waiting", "writing", "merging"}
  <2>1. CASE n \in DOMAIN durable
    BY <1>1, <1>2, <1>3, <2>1 DEF IInv, DurableInOrder
  <2>2. CASE n = Len(durable) + 1
    BY <1>1, <1>2, <2>2 DEF IInv, Phased, Job
  <2>3. QED
    BY <1>2, <2>1, <2>2
<1>5. ASSUME NEW i \in DOMAIN durable', NEW j \in DOMAIN durable', i < j
      PROVE  ticket'[durable'[i]] < ticket'[durable'[j]]
  <2>1. i \in DOMAIN durable
    BY <1>1, <1>2, <1>5
  <2>2. CASE j \in DOMAIN durable
    BY <1>1, <1>2, <1>5, <2>1, <2>2 DEF IInv, DurableInOrder
  <2>3. CASE j = Len(durable) + 1
    BY <1>1, <1>2, <1>3, <2>1, <2>3, WorkingIsLast
  <2>4. QED
    BY <1>2, <2>2, <2>3
<1>6. ASSUME NEW d \in Ids, step'[d] = "pointing"
      PROVE  \E n \in DOMAIN durable' : durable'[n] = d
  <2>1. CASE d = c
    BY <1>2, <2>1
  <2>2. CASE d # c
    <3>1. step[d] = "pointing"
      BY <1>1, <1>6, <2>2
    <3>2. PICK n \in DOMAIN durable : durable[n] = d
      BY <3>1 DEF IInv, DurableInOrder
    <3>3. QED
      BY <1>2, <3>2
  <2>3. QED
    BY <2>1, <2>2
<1>7. QED
  BY <1>4, <1>5, <1>6 DEF DurableInOrder

(* A step of a call that leaves the durable source alone, and the tickets that
   were given. *)
LEMMA DurableStays ==
  ASSUME IInv, NEW c \in Ids, NEW s, s # "pointing", durable' = durable, Goes(c, s),
         \A d \in Ids : ticket[d] # 0 => ticket'[d] = ticket[d],
         s \in {"waiting", "writing", "merging"} => step[c] \in {"new", "begun", "waiting"}
  PROVE  DurableInOrder'
<1>1. /\ step' = [step EXCEPT ![c] = s] /\ step \in [Ids -> Steps] /\ durable \in Seq(Ids)
      /\ \A n \in DOMAIN durable : durable[n] \in Ids
  BY DEF Goes, IInv, Typed
<1>2. ASSUME NEW n \in DOMAIN durable
      PROVE  /\ ticket[durable[n]] # 0 /\ ticket'[durable[n]] = ticket[durable[n]]
             /\ step'[durable[n]] \notin {"waiting", "writing", "merging"}
  <2>1. /\ durable[n] \in Ids /\ ticket[durable[n]] # 0
        /\ step[durable[n]] \notin {"waiting", "writing", "merging"}
    BY <1>1 DEF IInv, DurableInOrder
  <2>2. step[durable[n]] \notin {"new", "begun"}
    BY <2>1 DEF IInv, Phased
  <2>3. QED
    BY <1>1, <2>1, <2>2
<1>3. \A i, j \in DOMAIN durable : i < j => ticket'[durable[i]] < ticket'[durable[j]]
  BY <1>2 DEF IInv, DurableInOrder
<1>4. ASSUME NEW d \in Ids, step'[d] = "pointing"
      PROVE  \E n \in DOMAIN durable : durable[n] = d
  <2>1. step[d] = "pointing"
    BY <1>1, <1>4
  <2>2. QED
    BY <2>1 DEF IInv, DurableInOrder
<1>5. QED
  BY <1>1, <1>2, <1>3, <1>4 DEF DurableInOrder

(* A step of a call that has begun, which leaves the ephemeral source alone. *)
LEMMA EphemeralStays ==
  ASSUME IInv, NEW c \in Ids, NEW s, s \notin {"new", "begun"}, Goes(c, s),
         UNCHANGED <<kind, ephemeral, chain>>
  PROVE  EphemeralInOrder'
<1>1. step' = [step EXCEPT ![c] = s] /\ step \in [Ids -> Steps] /\ ephemeral \in Seq(Ids)
  BY DEF Goes, IInv, Typed
<1>2. \A n \in DOMAIN ephemeral : step'[ephemeral[n]] \notin {"new", "begun"}
  BY <1>1 DEF IInv, EphemeralInOrder
<1>3. QED
  BY <1>2 DEF IInv, EphemeralInOrder, chain

(* A call that arrives is in no source. *)
LEMMA ArrivalUnseen ==
  ASSUME IInv, NEW c \in Ids, step[c] = "new", NEW s, Goes(c, s), ephemeral' = ephemeral,
         \A d \in Ids : d # c => kind'[d] = kind[d] /\ ticket'[d] = ticket[d],
         kind'[c] = "durable" => ticket'[c] = 0
  PROVE  EphemeralInOrder'
<1>1. step' = [step EXCEPT ![c] = s] /\ step \in [Ids -> Steps] /\ ephemeral \in Seq(Ids)
  BY DEF Goes, IInv, Typed
<1>2. ASSUME NEW n \in DOMAIN ephemeral
      PROVE  /\ ephemeral[n] \in Ids /\ ephemeral[n] # c
             /\ step'[ephemeral[n]] \notin {"new", "begun"}
             /\ ticket'[ephemeral[n]] = ticket[ephemeral[n]]
  BY <1>1 DEF IInv, EphemeralInOrder
<1>3. \A i, j \in DOMAIN ephemeral :
        i < j /\ ticket'[ephemeral[i]] # 0 /\ ticket'[ephemeral[j]] # 0
          => ticket'[ephemeral[i]] < ticket'[ephemeral[j]]
  BY <1>2 DEF IInv, EphemeralInOrder
<1>4. \A d \in Ids : kind'[d] = "durable" /\ ticket'[d] # 0
        => \E n \in DOMAIN ephemeral : ephemeral[n] = d
  BY DEF IInv, EphemeralInOrder
<1>5. QED
  BY <1>2, <1>3, <1>4 DEF EphemeralInOrder

(* The ephemeral source stays in the order of the chain when a call appends to
   it and joins the chain, if it has a durable part. *)
LEMMA EphemeralAppends ==
  ASSUME IInv, NEW c \in Ids, step[c] = "begun", NEW s, s \notin {"new", "begun"}, Goes(c, s),
         ephemeral' = Append(ephemeral, c), kind' = kind,
         \A d \in Ids : d # c => ticket'[d] = ticket[d], ticket'[c] \in {0, jobs + 1}
  PROVE  EphemeralInOrder'
<1>1. /\ step' = [step EXCEPT ![c] = s] /\ step \in [Ids -> Steps] /\ ephemeral \in Seq(Ids)
      /\ jobs \in Nat /\ ticket \in [Ids -> Nat]
  BY DEF Goes, IInv, Typed
<1>2. /\ DOMAIN ephemeral' = DOMAIN ephemeral \cup {Len(ephemeral) + 1}
      /\ \A n \in DOMAIN ephemeral : ephemeral'[n] = ephemeral[n] /\ ephemeral[n] \in Ids
      /\ ephemeral'[Len(ephemeral) + 1] = c
      /\ \A n \in DOMAIN ephemeral : n \in Nat /\ 1 <= n /\ n <= Len(ephemeral)
  BY <1>1, AppendEntries
<1>3. \A n \in DOMAIN ephemeral :
        ephemeral[n] # c /\ step[ephemeral[n]] \notin {"new", "begun"}
          /\ ticket'[ephemeral[n]] = ticket[ephemeral[n]]
  BY <1>2 DEF IInv, EphemeralInOrder
<1>4. \A n \in DOMAIN ephemeral' : step'[ephemeral'[n]] \notin {"new", "begun"}
  BY <1>1, <1>2, <1>3
<1>5. ASSUME NEW i \in DOMAIN ephemeral', NEW j \in DOMAIN ephemeral', i < j,
             ticket'[ephemeral'[i]] # 0, ticket'[ephemeral'[j]] # 0
      PROVE  ticket'[ephemeral'[i]] < ticket'[ephemeral'[j]]
  <2>1. i \in DOMAIN ephemeral
    BY <1>1, <1>2, <1>5
  <2>2. CASE j \in DOMAIN ephemeral
    BY <1>2, <1>3, <1>5, <2>1, <2>2 DEF IInv, EphemeralInOrder
  <2>3. CASE j = Len(ephemeral) + 1
    <3>1. ticket'[ephemeral'[j]] = jobs + 1
      BY <1>2, <1>5, <2>3
    <3>2. ticket'[ephemeral'[i]] \in Nat /\ ticket'[ephemeral'[i]] <= jobs
      BY <1>1, <1>2, <1>3, <2>1 DEF IInv, Chained
    <3>3. QED
      BY <1>1, <3>1, <3>2
  <2>4. QED
    BY <1>2, <2>2, <2>3
<1>6. ASSUME NEW d \in Ids, kind'[d] = "durable", ticket'[d] # 0
      PROVE  \E n \in DOMAIN ephemeral' : ephemeral'[n] = d
  <2>1. CASE d = c
    BY <1>2, <2>1
  <2>2. CASE d # c
    <3>1. PICK n \in DOMAIN ephemeral : ephemeral[n] = d
      BY <1>6, <2>2 DEF IInv, EphemeralInOrder
    <3>2. QED
      BY <1>2, <3>1
  <2>3. QED
    BY <2>1, <2>2
<1>7. QED
  BY <1>4, <1>5, <1>6 DEF EphemeralInOrder

(* The kept root is not made old by a step that leaves the durable source and
   the root alone, unless the call was to keep a new one. *)
LEMMA RootStays ==
  ASSUME IInv, NEW c \in Ids, NEW s, Goes(c, s), UNCHANGED <<durable, pointer>>,
         step[c] = "pointing" => s = "failed", step[c] # "failed",
         \A d \in Ids : ticket[d] # 0 => kind'[d] = kind[d]
  PROVE  RootKept'
<1>1. /\ step' = [step EXCEPT ![c] = s] /\ step \in [Ids -> Steps]
      /\ durable \in Seq(Ids) /\ pointer \in 0 .. Len(durable)
  BY DEF Goes, IInv, Typed
<1>2. \A n \in 1 .. Len(durable) : durable[n] \in Ids /\ kind'[durable[n]] = kind[durable[n]]
  BY <1>1 DEF IInv, DurableInOrder
<1>3. pointer # 0 => kind'[durable[pointer]] = "durable"
  BY <1>1, <1>2 DEF IInv, RootKept
<1>4. ASSUME NEW n \in pointer + 1 .. Len(durable)
      PROVE  kind'[durable[n]] = "merge" \/ step'[durable[n]] \in {"pointing", "failed"}
  <2>1. n \in 1 .. Len(durable)
    BY <1>1
  <2>2. kind[durable[n]] = "merge" \/ step[durable[n]] \in {"pointing", "failed"}
    BY DEF IInv, RootKept
  <2>3. QED
    BY <1>1, <1>2, <2>1, <2>2
<1>5. QED
  BY <1>3, <1>4 DEF RootKept

LEMMA RootAppends ==
  ASSUME IInv, NEW c \in Ids, step[c] \in {"writing", "merging"}, NEW s, Goes(c, s),
         durable' = Append(durable, c), UNCHANGED <<kind, pointer>>,
         s = "pointing" \/ kind[c] = "merge"
  PROVE  RootKept'
<1>1. /\ step' = [step EXCEPT ![c] = s] /\ step \in [Ids -> Steps]
      /\ durable \in Seq(Ids) /\ pointer \in 0 .. Len(durable)
  BY DEF Goes, IInv, Typed
<1>2. /\ Len(durable') = Len(durable) + 1
      /\ \A n \in 1 .. Len(durable) : durable'[n] = durable[n] /\ durable[n] \in Ids
      /\ durable'[Len(durable) + 1] = c
  BY <1>1
<1>3. \A n \in 1 .. Len(durable) : durable[n] # c
  BY <1>1 DEF IInv, DurableInOrder
<1>4. pointer # 0 => kind[durable'[pointer]] = "durable"
  BY <1>1, <1>2 DEF IInv, RootKept
<1>5. ASSUME NEW n \in pointer + 1 .. Len(durable')
      PROVE  kind[durable'[n]] = "merge" \/ step'[durable'[n]] \in {"pointing", "failed"}
  <2>1. CASE n = Len(durable) + 1
    BY <1>1, <1>2, <2>1
  <2>2. CASE n # Len(durable) + 1
    <3>1. n \in 1 .. Len(durable) /\ n \in pointer + 1 .. Len(durable)
      BY <1>1, <1>2, <2>2
    <3>2. kind[durable[n]] = "merge" \/ step[durable[n]] \in {"pointing", "failed"}
      BY <3>1 DEF IInv, RootKept
    <3>3. QED
      BY <1>1, <1>2, <1>3, <3>1, <3>2
  <2>3. QED
    BY <2>1, <2>2
<1>6. QED
  BY <1>4, <1>5 DEF RootKept

-----------------------------------------------------------------------------
(* The place of a transaction that keeps its root: the end of the durable
   source. *)
LEMMA PointsToLast ==
  ASSUME IInv, NEW c \in Ids, CommitPointer(c)
  PROVE  /\ pointer' \in 1 .. Len(durable)
         /\ durable[pointer'] = c
         /\ \A n \in 1 .. Len(durable) : n <= pointer'
<1>1. step[c] = "pointing" /\ durable \in Seq(Ids)
  BY DEF CommitPointer, IInv, Typed
<1>2. \E n \in 1 .. Len(durable) : durable[n] = c
  BY <1>1 DEF IInv, DurableInOrder
<1>3. pointer' \in 1 .. Len(durable) /\ durable[pointer'] = c
  BY <1>2 DEF CommitPointer
<1>4. ASSUME NEW n \in 1 .. Len(durable), pointer' < n
      PROVE  FALSE
  <2>1. ticket[c] < ticket[durable[n]]
    BY <1>1, <1>3, <1>4 DEF IInv, DurableInOrder
  <2>2. ticket[c] \in Nat /\ durable[n] \in Ids /\ ticket[durable[n]] \in Nat
    BY <1>1 DEF IInv, Typed
  <2>3. durable[n] # c
    BY <2>1, <2>2
  <2>4. ticket[durable[n]] < ticket[c]
    BY <1>1, <2>3, WorkingIsLast
  <2>5. QED
    BY <2>1, <2>2, <2>4
<1>5. QED
  BY <1>1, <1>3, <1>4

LEMMA EnqueueTypes ==
  ASSUME Typed, NEW c \in Ids, Enqueue(c)
  PROVE  /\ step' = [step EXCEPT ![c] = "waiting"] /\ step' \in [Ids -> Steps]
         /\ writable' \in Ids \cup {0} /\ waitsFor' \in [Ids -> Ids \cup {0}]
         /\ jobs' = jobs + 1 /\ jobs' \in Nat
         /\ ticket' = [ticket EXCEPT ![c] = jobs + 1] /\ ticket' \in [Ids -> Nat]
BY DEF Typed, Enqueue, Goes, Steps, Job

LEMMA Beyond ==
  ASSUME NEW m \in Nat, NEW len \in Nat, NEW n \in m + 1 .. len
  PROVE  n \in 1 .. len /\ ~(n <= m)
OBVIOUS

THEOREM InvNext == IInv /\ [Next]_vars => IInv'
<1> SUFFICES ASSUME IInv, [Next]_vars PROVE IInv'
  OBVIOUS
<1>0. Typed /\ Chained /\ Queued /\ Phased
  BY DEF IInv
<1>1. ASSUME NEW c \in Ids, Transact(c) PROVE IInv'
  <2>1. /\ step[c] = "new" /\ Goes(c, "begun") /\ ticket[c] = 0 /\ UNCHANGED <<sources, chain>>
        /\ \E k \in {"local", "durable"} : kind' = [kind EXCEPT ![c] = k]
    BY <1>0, <1>1 DEF Transact, Arrives, Phased
  <2>2. Typed'
    BY <1>0, <2>1 DEF Typed, Goes, Steps, sources, chain
  <2>3. Chained'
    BY <1>0, <2>1 DEF Chained, chain
  <2>4. Queued'
    BY <1>0, <2>1, GoingQueues DEF Settled, Ids
  <2>5. Phased'
    BY <1>0, <2>1 DEF Phased, Typed, Goes, Job, chain
  <2>6. DurableInOrder'
    BY <2>1, DurableStays DEF chain, sources
  <2>7. \A d \in Ids : d # c => kind'[d] = kind[d] /\ ticket'[d] = ticket[d]
    BY <1>0, <2>1 DEF Typed, chain
  <2>8. EphemeralInOrder'
    BY <2>1, <2>7, ArrivalUnseen DEF chain, sources
  <2>9. RootKept'
    BY <2>1, <2>7, RootStays DEF sources
  <2>10. QED
    BY <2>2, <2>3, <2>4, <2>5, <2>6, <2>8, <2>9 DEF IInv
<1>2. ASSUME NEW c \in Ids, Merge(c) PROVE IInv'
  <2>1. /\ step[c] = "new" /\ Enqueue(c) /\ ticket[c] = 0 /\ UNCHANGED sources
        /\ kind' = [kind EXCEPT ![c] = "merge"] /\ Goes(c, "waiting")
    BY <1>0, <1>2 DEF Merge, Arrives, Phased, Enqueue
  <2>2. /\ step' = [step EXCEPT ![c] = "waiting"] /\ step' \in [Ids -> Steps]
        /\ ticket' = [ticket EXCEPT ![c] = jobs + 1] /\ ticket' \in [Ids -> Nat]
        /\ ticket \in [Ids -> Nat] /\ jobs \in Nat
        /\ kind' \in [Ids -> {"local", "durable", "merge"}]
        /\ \A d \in Ids : d # c => kind'[d] = kind[d] /\ ticket'[d] = ticket[d]
        /\ kind'[c] = "merge" /\ ticket'[c] # 0
    BY <1>0, <2>1, EnqueueTypes DEF Typed
  <2>3. Typed'
    BY <1>0, <2>1, <2>2, EnqueueTypes DEF Typed, sources
  <2>4. Chained'
    BY <1>0, <2>1, EnqueueChains
  <2>5. Queued'
    BY <1>0, <2>1, EnqueueQueues
  <2>6. Phased'
    BY <1>0, <2>2 DEF Phased, Typed, Job
  <2>7. \A d \in Ids : ticket[d] # 0 => ticket'[d] = ticket[d] /\ kind'[d] = kind[d]
    BY <2>1, <2>2
  <2>8. DurableInOrder'
    BY <2>1, <2>7, DurableStays DEF sources
  <2>9. EphemeralInOrder'
    BY <2>1, <2>2, ArrivalUnseen DEF sources
  <2>10. RootKept'
    BY <2>1, <2>7, RootStays DEF sources
  <2>11. QED
    BY <2>3, <2>4, <2>5, <2>6, <2>8, <2>9, <2>10 DEF IInv
<1>3. ASSUME NEW c \in Ids, CommitEphemeral(c) PROVE IInv'
  <2>1. /\ step[c] = "begun" /\ ticket[c] = 0 /\ UNCHANGED <<kind, durable, pointer>>
        /\ ephemeral' = Append(ephemeral, c)
    BY <1>0, <1>3 DEF CommitEphemeral, Phased
  <2>2. ephemeral' \in Seq(Ids)
    BY <1>0, <2>1 DEF Typed
  <2>3. CASE kind[c] = "durable"
    <3>1. Enqueue(c) /\ Goes(c, "waiting")
      BY <1>3, <2>3 DEF CommitEphemeral, Enqueue
    <3>2. /\ step' = [step EXCEPT ![c] = "waiting"] /\ step' \in [Ids -> Steps]
          /\ ticket' = [ticket EXCEPT ![c] = jobs + 1] /\ ticket \in [Ids -> Nat]
          /\ \A d \in Ids : d # c => ticket'[d] = ticket[d]
          /\ ticket'[c] = jobs + 1 /\ jobs \in Nat
      BY <1>0, <3>1, EnqueueTypes DEF Typed
    <3>3. Typed'
      BY <1>0, <2>1, <2>2, <3>1, EnqueueTypes DEF Typed
    <3>4. Chained' /\ Queued'
      BY <1>0, <2>1, <3>1, EnqueueChains, EnqueueQueues
    <3>5. Phased'
      BY <1>0, <2>1, <2>3, <3>2 DEF Phased, Typed, Job
    <3>6. DurableInOrder'
      BY <2>1, <3>1, <3>2, DurableStays
    <3>7. EphemeralInOrder'
      BY <2>1, <3>1, <3>2, EphemeralAppends
    <3>8. RootKept'
      BY <2>1, <3>1, RootStays
    <3>9. QED
      BY <3>3, <3>4, <3>5, <3>6, <3>7, <3>8 DEF IInv
  <2>4. CASE kind[c] # "durable"
    <3>1. Goes(c, "announcing") /\ UNCHANGED chain
      BY <1>3, <2>4 DEF CommitEphemeral
    <3>2. Typed'
      BY <1>0, <2>1, <2>2, <3>1 DEF Typed, Goes, Steps, chain
    <3>3. Chained'
      BY <1>0, <3>1 DEF Chained, chain
    <3>4. Queued'
      BY <1>0, <2>1, <3>1, GoingQueues DEF Settled, Ids
    <3>5. Phased'
      BY <1>0, <2>1, <3>1 DEF Phased, Typed, Goes, Job, chain
    <3>6. DurableInOrder'
      BY <2>1, <3>1, DurableStays DEF chain
    <3>7. EphemeralInOrder'
      BY <2>1, <3>1, EphemeralAppends DEF chain
    <3>8. RootKept'
      BY <2>1, <3>1, RootStays
    <3>9. QED
      BY <3>2, <3>3, <3>4, <3>5, <3>6, <3>7, <3>8 DEF IInv
  <2>5. QED
    BY <2>3, <2>4
<1>4. ASSUME NEW c \in Ids, BeginJob(c) PROVE IInv'
  <2> DEFINE s == IF kind[c] = "merge" THEN "merging" ELSE "writing"
  <2>1. /\ step[c] = "waiting" /\ Settled(waitsFor[c]) /\ Goes(c, s)
        /\ ticket[c] # 0 /\ s \in {"merging", "writing"} /\ ~Settled(c)
    BY <1>0, <1>4 DEF BeginJob, Phased, Job, Settled, Ids
  <2>2. UNCHANGED <<kind, sources, chain>>
    BY <1>4 DEF BeginJob
  <2>3. (s = "writing" => kind[c] = "durable") /\ (s = "merging" => kind[c] = "merge")
    BY <1>0, <2>1 DEF Phased, Typed
  <2> HIDE DEF s
  <2>4. Typed'
    BY <1>0, <2>1, <2>2 DEF Typed, Goes, Steps, Job, sources, chain
  <2>5. Chained'
    BY <1>0, <2>2 DEF Chained, chain
  <2>6. \A d \in Ids : ticket[d] # 0 /\ ticket[d] < ticket[c] => Settled(d)
    BY <1>0, <2>1, FirstInChain
  <2>7. Queued'
    BY <1>0, <2>1, <2>2, <2>6, GoingQueues
  <2>8. Phased'
    BY <1>0, <2>1, <2>2, <2>3 DEF Phased, Typed, Goes, Job, chain
  <2>9. DurableInOrder'
    BY <2>1, <2>2, DurableStays DEF chain, sources
  <2>10. EphemeralInOrder'
    BY <2>1, <2>2, EphemeralStays DEF sources
  <2>11. RootKept'
    BY <2>1, <2>2, RootStays DEF sources
  <2>12. QED
    BY <2>4, <2>5, <2>7, <2>8, <2>9, <2>10, <2>11 DEF IInv
<1>5. ASSUME NEW c \in Ids, CommitDurable(c) PROVE IInv'
  <2>1. /\ step[c] = "writing" /\ Goes(c, "pointing") /\ durable' = Append(durable, c)
        /\ UNCHANGED <<kind, ephemeral, pointer, chain>>
        /\ ticket[c] # 0 /\ ~Settled(c) /\ kind[c] = "durable"
    BY <1>0, <1>5 DEF CommitDurable, Phased, Job, Settled, Ids
  <2>2. Typed'
    <3>1. durable' \in Seq(Ids) /\ pointer' \in 0 .. Len(durable')
      BY <1>0, <2>1, AppendEntries DEF Typed
    <3>2. QED
      BY <1>0, <2>1, <3>1 DEF Typed, Goes, Steps, Job, chain
  <2>3. Chained'
    BY <1>0, <2>1 DEF Chained, chain
  <2>4. Queued'
    BY <1>0, <2>1, GoingQueues
  <2>5. Phased'
    BY <1>0, <2>1 DEF Phased, Typed, Goes, Job, chain
  <2>6. DurableInOrder'
    BY <2>1, DurableAppends
  <2>7. EphemeralInOrder'
    BY <2>1, EphemeralStays
  <2>8. RootKept'
    BY <2>1, RootAppends
  <2>9. QED
    BY <2>2, <2>3, <2>4, <2>5, <2>6, <2>7, <2>8 DEF IInv
<1>6. ASSUME NEW c \in Ids, CommitPointer(c) PROVE IInv'
  <2>1. /\ step[c] = "pointing" /\ Goes(c, "announcing")
        /\ UNCHANGED <<kind, ephemeral, durable, chain>>
        /\ ticket[c] # 0 /\ ~Settled(c) /\ kind[c] = "durable"
    BY <1>0, <1>6 DEF CommitPointer, Phased, Job, Settled, Ids
  <2>2. /\ pointer' \in 1 .. Len(durable) /\ durable[pointer'] = c
        /\ \A n \in 1 .. Len(durable) : n <= pointer'
    BY <1>6, PointsToLast
  <2>3. Typed'
    BY <1>0, <2>1, <2>2 DEF Typed, Goes, Steps, chain
  <2>4. Chained'
    BY <1>0, <2>1 DEF Chained, chain
  <2>5. Queued'
    BY <1>0, <2>1, GoingQueues
  <2>6. Phased'
    BY <1>0, <2>1 DEF Phased, Typed, Goes, Job, chain
  <2>7. DurableInOrder'
    BY <2>1, DurableStays DEF chain
  <2>8. EphemeralInOrder'
    BY <2>1, EphemeralStays
  <2>9. RootKept'
    <3>1. kind'[durable'[pointer']] = "durable"
      BY <2>1, <2>2
    <3>2. Len(durable) \in Nat /\ durable' = durable
      BY <1>0, <2>1 DEF Typed
    <3>3. ASSUME NEW n \in pointer' + 1 .. Len(durable') PROVE FALSE
      <4>1. pointer' \in Nat
        BY <2>2, <3>2
      <4>2. n \in pointer' + 1 .. Len(durable)
        BY <3>2, <3>3
      <4>3. n \in 1 .. Len(durable) /\ ~(n <= pointer')
        BY <3>2, <4>1, <4>2, Beyond
      <4>4. QED
        BY <2>2, <4>3
    <3>4. QED
      BY <3>1, <3>3 DEF RootKept
  <2>10. QED
    BY <2>3, <2>4, <2>5, <2>6, <2>7, <2>8, <2>9 DEF IInv
<1>7. ASSUME NEW c \in Ids, CommitMerge(c) PROVE IInv'
  <2>1. /\ step[c] = "merging" /\ Goes(c, "returned")
        /\ UNCHANGED <<kind, ephemeral, pointer, chain>>
        /\ durable' = Append(durable, c) \/ durable' = durable
        /\ ticket[c] # 0 /\ ~Settled(c)
    BY <1>0, <1>7 DEF CommitMerge, Phased, Job, Settled, Ids
  <2>2. Typed'
    <3>1. Append(durable, c) \in Seq(Ids) /\ Len(Append(durable, c)) = Len(durable) + 1
      BY <1>0, AppendEntries DEF Typed
    <3>2. pointer' = pointer /\ durable \in Seq(Ids) /\ pointer \in 0 .. Len(durable)
      BY <1>0, <2>1 DEF Typed
    <3>3. CASE durable' = durable
      BY <1>0, <2>1, <3>2, <3>3 DEF Typed, Goes, Steps, chain
    <3>4. CASE durable' = Append(durable, c)
      <4>1. durable' \in Seq(Ids) /\ pointer' \in 0 .. Len(durable')
        BY <3>1, <3>2, <3>4
      <4>2. QED
        BY <1>0, <2>1, <4>1 DEF Typed, Goes, Steps, chain
    <3>5. QED
      BY <2>1, <3>3, <3>4
  <2>3. Chained'
    BY <1>0, <2>1 DEF Chained, chain
  <2>4. Queued'
    BY <1>0, <2>1, GoingQueues
  <2>5. Phased'
    BY <1>0, <2>1 DEF Phased, Typed, Goes, Job, chain
  <2>6. DurableInOrder'
    BY <2>1, DurableAppends, DurableStays DEF chain
  <2>7. EphemeralInOrder'
    BY <2>1, EphemeralStays
  <2>8. kind[c] = "merge"
    BY <1>0, <2>1 DEF Phased
  <2>9. RootKept'
    <3>1. CASE durable' = Append(durable, c)
      BY <2>1, <2>8, <3>1, RootAppends
    <3>2. CASE durable' = durable
      BY <2>1, <3>2, RootStays
    <3>3. QED
      BY <2>1, <3>1, <3>2
  <2>10. QED
    BY <2>2, <2>3, <2>4, <2>5, <2>6, <2>7, <2>9 DEF IInv
<1>8. ASSUME NEW c \in Ids, Announce(c) PROVE IInv'
  <2>1. /\ step[c] = "announcing" /\ Goes(c, "returned") /\ UNCHANGED <<kind, sources, chain>>
    BY <1>8 DEF Announce
  <2>2. Typed'
    BY <1>0, <2>1 DEF Typed, Goes, Steps, chain, sources
  <2>3. Chained'
    BY <1>0, <2>1 DEF Chained, chain
  <2>4. Queued'
    BY <1>0, <2>1, GoingQueues
  <2>5. Phased'
    BY <1>0, <2>1 DEF Phased, Typed, Goes, Job, chain
  <2>6. DurableInOrder'
    BY <2>1, DurableStays DEF chain, sources
  <2>7. EphemeralInOrder'
    BY <2>1, EphemeralStays DEF sources
  <2>8. RootKept'
    BY <2>1, RootStays DEF sources
  <2>9. QED
    BY <2>2, <2>3, <2>4, <2>5, <2>6, <2>7, <2>8 DEF IInv
<1>9. ASSUME NEW c \in Ids, Fail(c) PROVE IInv'
  <2>1. /\ step[c] \in {"begun", "writing", "pointing", "merging"} /\ Goes(c, "failed")
        /\ UNCHANGED <<kind, sources, chain>>
    BY <1>9 DEF Fail
  <2>2. Typed'
    BY <1>0, <2>1 DEF Typed, Goes, Steps, chain, sources
  <2>3. Chained'
    BY <1>0, <2>1 DEF Chained, chain
  <2>4. Queued'
    BY <1>0, <2>1, GoingQueues
  <2>5. Phased'
    BY <1>0, <2>1 DEF Phased, Typed, Goes, Job, chain
  <2>6. DurableInOrder'
    BY <2>1, DurableStays DEF chain, sources
  <2>7. EphemeralInOrder'
    BY <2>1, EphemeralStays DEF sources
  <2>8. RootKept'
    BY <2>1, RootStays DEF sources
  <2>9. QED
    BY <2>2, <2>3, <2>4, <2>5, <2>6, <2>7, <2>8 DEF IInv
<1>10. CASE UNCHANGED vars
  BY <1>10 DEF IInv, Typed, Chained, Queued, Phased, DurableInOrder, EphemeralInOrder,
     RootKept, Settled, vars, sources, chain
<1>11. QED
  BY <1>1, <1>2, <1>3, <1>4, <1>5, <1>6, <1>7, <1>8, <1>9, <1>10 DEF Next, Advance

(* The invariant holds throughout. *)
THEOREM AlwaysInv == Spec => []IInv
<1>1. QED
  BY InvInit, InvNext, PTL DEF Spec

-----------------------------------------------------------------------------
(* As many calls are in the chain as tickets were given. *)
Chain == {c \in Ids : ticket[c] # 0}
Counted == jobs = Cardinality(Chain)

LEMMA CountedNext == IInv /\ Counted /\ [Next]_vars => Counted'
<1> SUFFICES ASSUME IInv, Counted, [Next]_vars PROVE Counted'
  OBVIOUS
<1>1. ASSUME NEW c \in Ids, ticket[c] = 0, Enqueue(c)
      PROVE  Counted'
  <2>1. IsFiniteSet(Ids)
    BY CallsAssumption, FS_Interval DEF Ids
  <2>2. IsFiniteSet(Chain)
    BY <2>1, FS_Subset DEF Chain
  <2>3. /\ jobs' = jobs + 1 /\ jobs \in Nat /\ ticket \in [Ids -> Nat]
        /\ ticket' = [ticket EXCEPT ![c] = jobs + 1]
    BY <1>1, EnqueueTypes DEF IInv, Typed
  <2>4. Chain' = Chain \cup {c} /\ c \notin Chain
    BY <1>1, <2>3 DEF Chain
  <2>5. Cardinality(Chain \cup {c}) = Cardinality(Chain) + 1
    BY <2>2, <2>4, FS_AddElement
  <2>6. QED
    BY <2>3, <2>4, <2>5 DEF Counted
<1>2. CASE UNCHANGED chain
  BY <1>2 DEF Counted, Chain, chain
<1>3. \A c \in Ids : step[c] \in {"new", "begun"} => ticket[c] = 0
  BY DEF IInv, Phased
<1>4. QED
  BY <1>1, <1>2, <1>3 DEF Next, Advance, Transact, Merge, Arrives, CommitEphemeral, BeginJob,
     CommitDurable, CommitPointer, CommitMerge, Announce, Fail, vars, chain

(* The variables of the hybrid source have their types, and a call works on the
   durable source only with a ticket of the chain. *)
THEOREM TypeCorrect == Spec => []TypeOK
<1>1. Init => Counted
  <2> SUFFICES ASSUME Init PROVE Counted
    OBVIOUS
  <2>1. Chain = {} /\ jobs = 0
    BY DEF Init, Chain
  <2>2. QED
    BY <2>1, FS_EmptySet DEF Counted
<1>2. IInv /\ Counted => TypeOK
  <2> SUFFICES ASSUME IInv, Counted PROVE TypeOK
    OBVIOUS
  <2>1. \A c \in Ids : ticket[c] \in 0 .. jobs /\ (step[c] \in Job => ticket[c] # 0)
    BY DEF IInv, Typed, Chained, Phased
  <2>2. QED
    BY <2>1 DEF TypeOK, IInv, Typed, Counted, Chain
<1>3. QED
  BY <1>1, <1>2, AlwaysInv, CountedNext, PTL DEF Spec

(* What comes later in the ephemeral source does in the durable one too,
   however many transactions and merges are under way and whatever fails. *)
THEOREM OneOrder == Spec => []SameOrder
<1>1. IInv => SameOrder
  <2> SUFFICES ASSUME IInv, NEW c \in Ids, NEW d \in Ids, Before(durable, c, d),
                      kind[c] = "durable", kind[d] = "durable"
               PROVE  Before(ephemeral, c, d)
    BY DEF SameOrder
  <2>1. ticket[c] \in Nat /\ ticket[d] \in Nat /\ ephemeral \in Seq(Ids)
    BY DEF IInv, Typed
  <2>2. PICK i, j \in DOMAIN durable : i < j /\ durable[i] = c /\ durable[j] = d
    BY DEF Before
  <2>3. ticket[c] < ticket[d] /\ ticket[c] # 0 /\ ticket[d] # 0
    BY <2>2 DEF IInv, DurableInOrder
  <2>4. PICK m \in DOMAIN ephemeral : ephemeral[m] = c
    BY <2>3 DEF IInv, EphemeralInOrder
  <2>5. PICK n \in DOMAIN ephemeral : ephemeral[n] = d
    BY <2>3 DEF IInv, EphemeralInOrder
  <2>6. m # n
    BY <2>1, <2>3, <2>4, <2>5
  <2>7. ~(n < m)
    <3>1. n < m => ticket[d] < ticket[c]
      BY <2>3, <2>4, <2>5 DEF IInv, EphemeralInOrder
    <3>2. QED
      BY <2>1, <2>3, <3>1
  <2>8. m < n
    BY <2>1, <2>6, <2>7
  <2>9. QED
    BY <2>4, <2>5, <2>8 DEF Before
<1>2. QED
  BY <1>1, AlwaysInv, PTL

(* The root kept in the ephemeral source is that of the last transaction that
   returned: no job can come between a durable commit and its root. *)
THEOREM RootCurrent == Spec => []RootKept
<1>1. IInv => RootKept
  BY DEF IInv
<1>2. QED
  BY <1>1, AlwaysInv, PTL

-----------------------------------------------------------------------------
(* A job that is begun does so alone, and after all before it. *)
LEMMA BeginsAlone ==
  ASSUME IInv, NEW c \in Ids, BeginJob(c)
  PROVE  Active = {} /\ ticket[c] \in 1 .. jobs /\ ticket[c] \notin Begun
         /\ 1 .. ticket[c] - 1 \subseteq Begun
<1>1. /\ step[c] = "waiting" /\ ticket[c] # 0 /\ Settled(waitsFor[c]) /\ ~Settled(c)
      /\ ticket \in [Ids -> Nat] /\ jobs \in Nat
  BY DEF BeginJob, IInv, Phased, Job, Typed, Settled, Ids
<1>2. \A d \in Ids : ticket[d] # 0 /\ ticket[d] < ticket[c] => Settled(d)
  BY <1>1, FirstInChain DEF IInv
<1>3. ASSUME NEW d \in Ids, step[d] \in Job \ {"waiting"}
      PROVE  FALSE
  <2>1. ticket[d] # 0 /\ ~Settled(d)
    BY <1>3 DEF IInv, Phased, Job, Settled, Ids
  <2>2. ~(ticket[d] < ticket[c])
    BY <1>2, <2>1
  <2>3. ~(ticket[c] < ticket[d])
    BY <1>1, <1>3 DEF IInv, Queued
  <2>4. d = c
    BY <1>1, <2>1, <2>2, <2>3 DEF IInv, Chained
  <2>5. QED
    BY <1>1, <1>3, <2>4
<1>4. Active = {}
  BY <1>3 DEF Active
<1>5. ticket[c] \in 1 .. jobs
  BY <1>1 DEF IInv, Chained
<1>6. ticket[c] \notin Begun
  BY <1>1 DEF Begun, IInv, Chained
<1>7. ASSUME NEW u \in 1 .. ticket[c] - 1
      PROVE  u \in Begun
  <2>1. u \in 1 .. jobs /\ u < ticket[c] /\ u # 0
    BY <1>1, <1>5
  <2>2. PICK d \in Ids : ticket[d] = u
    BY <2>1 DEF IInv, Chained
  <2>3. Settled(d)
    BY <1>2, <2>1, <2>2
  <2>4. step[d] # "waiting"
    BY <2>3 DEF Settled, Ids
  <2>5. QED
    BY <2>1, <2>2, <2>4 DEF Begun
<1>8. QED
  BY <1>4, <1>5, <1>6, <1>7

(* At most one job works. *)
LEMMA OneActive ==
  ASSUME IInv, NEW c \in Ids, step[c] \in Job \ {"waiting"},
         NEW d \in Ids, step[d] \in Job \ {"waiting"}
  PROVE  d = c
<1>1. /\ ticket[c] # 0 /\ ticket[d] # 0 /\ ~Settled(c) /\ ~Settled(d)
      /\ ticket[c] \in Nat /\ ticket[d] \in Nat
  BY DEF IInv, Phased, Job, Settled, Typed, Ids
<1>2. ~(ticket[d] < ticket[c]) /\ ~(ticket[c] < ticket[d])
  BY <1>1 DEF IInv, Queued
<1>3. QED
  BY <1>1, <1>2 DEF IInv, Chained

(* Steps of a call that leave its job where it is in the chain. *)
LEMMA JobStays ==
  ASSUME IInv, NEW c \in Ids, NEW s, Goes(c, s), UNCHANGED chain,
         ticket[c] = 0 \/ (step[c] # "waiting" /\ s # "waiting"),
         ticket[c] = 0 => s \notin Job,
         s \in Job \ {"waiting"} <=> step[c] \in Job \ {"waiting"}
  PROVE  UNCHANGED <<jobs, Begun, Active>>
<1>1. step' = [step EXCEPT ![c] = s] /\ step \in [Ids -> Steps] /\ ticket' = ticket
      /\ jobs' = jobs
  BY DEF Goes, IInv, Typed, chain
<1>2. Active' = Active
  BY <1>1 DEF Active
<1>3. Begun' = Begun
  BY <1>1 DEF Begun
<1>4. QED
  BY <1>1, <1>2, <1>3

LEMMA JobEnds ==
  ASSUME IInv, NEW c \in Ids, NEW s, s \notin Job, Goes(c, s), UNCHANGED chain,
         step[c] \in Job \ {"waiting"}
  PROVE  Active # {} /\ Active' = {} /\ UNCHANGED <<jobs, Begun>>
<1>1. step' = [step EXCEPT ![c] = s] /\ step \in [Ids -> Steps] /\ ticket' = ticket
      /\ jobs' = jobs
  BY DEF Goes, IInv, Typed, chain
<1>2. ticket[c] \in Active
  BY DEF Active
<1>3. \A d \in Ids : step'[d] \notin Job \ {"waiting"}
  BY <1>1, OneActive
<1>4. Active' = {}
  BY <1>3 DEF Active
<1>5. Begun' = Begun
  BY <1>1 DEF Begun, Job
<1>6. QED
  BY <1>1, <1>2, <1>4, <1>5

LEMMA JobJoins ==
  ASSUME IInv, NEW c \in Ids, step[c] \in {"new", "begun"}, Enqueue(c)
  PROVE  jobs' = jobs + 1 /\ UNCHANGED <<Begun, Active>>
<1>1. /\ step' = [step EXCEPT ![c] = "waiting"] /\ ticket' = [ticket EXCEPT ![c] = jobs + 1]
      /\ jobs' = jobs + 1 /\ ticket[c] = 0 /\ ticket \in [Ids -> Nat]
      /\ step \in [Ids -> Steps]
  BY EnqueueTypes DEF IInv, Typed, Phased
<1>2. \A d \in Ids : d # c => step'[d] = step[d] /\ ticket'[d] = ticket[d]
  BY <1>1
<1>3. \A d \in Ids : step'[d] \in Job \ {"waiting"} <=> step[d] \in Job \ {"waiting"}
  BY <1>1, <1>2 DEF Job
<1>4. \A d \in Ids : step[d] \in Job \ {"waiting"} => ticket'[d] = ticket[d]
  BY <1>2 DEF Job
<1>5. Active' = Active
  BY <1>3, <1>4 DEF Active
<1>6. \A d \in Ids : (ticket'[d] # 0 /\ step'[d] # "waiting") <=> (ticket[d] # 0 /\ step[d] # "waiting")
  BY <1>1, <1>2
<1>7. \A d \in Ids : ticket[d] # 0 => ticket'[d] = ticket[d]
  BY <1>1, <1>2
<1>8. Begun' = Begun
  BY <1>6, <1>7 DEF Begun
<1>9. QED
  BY <1>1, <1>5, <1>8

LEMMA JobBegins ==
  ASSUME IInv, NEW c \in Ids, BeginJob(c)
  PROVE  Serial!Begin(ticket[c])
<1>1. /\ Active = {} /\ ticket[c] \in 1 .. jobs /\ ticket[c] \notin Begun
      /\ 1 .. ticket[c] - 1 \subseteq Begun
  BY BeginsAlone
<1>2. PICK s \in {"merging", "writing"} : step' = [step EXCEPT ![c] = s]
  BY DEF BeginJob, Goes
<1>3. /\ ticket' = ticket /\ jobs' = jobs /\ step \in [Ids -> Steps]
      /\ ticket[c] # 0 /\ step[c] = "waiting"
  BY DEF BeginJob, chain, IInv, Typed, Phased, Job
<1>4. \A d \in Ids : step[d] \notin Job \ {"waiting"}
  BY <1>1 DEF Active
<1>5. \A d \in Ids : step'[d] \in Job \ {"waiting"} <=> d = c
  BY <1>2, <1>3, <1>4 DEF Job
<1>6. Active' = {ticket[c]}
  BY <1>3, <1>5 DEF Active
<1>7. \A d \in Ids : (ticket[d] # 0 /\ step'[d] # "waiting")
                       <=> (ticket[d] # 0 /\ step[d] # "waiting") \/ d = c
  BY <1>2, <1>3
<1>8. Begun' = Begun \cup {ticket[c]}
  BY <1>3, <1>7 DEF Begun
<1>9. QED
  BY <1>1, <1>3, <1>6, <1>8 DEF Serial!Begin

(* The jobs of a hybrid source are performed as the serial executor performs
   them: one at a time, the oldest first. *)
THEOREM SerialRefinement == Spec => ImplementsSerial
<1>1. Init => Serial!SerialInit
  BY DEF Init, Serial!SerialInit, Begun, Active, Job
<1>2. IInv /\ [Next]_vars => [Serial!SerialNext]_<<jobs, Begun, Active>>
  <2> SUFFICES ASSUME IInv, [Next]_vars
               PROVE  Serial!SerialNext \/ UNCHANGED <<jobs, Begun, Active>>
    OBVIOUS
  <2>1. \A c \in Ids : step[c] \in {"new", "begun"} => ticket[c] = 0
    BY DEF IInv, Phased
  <2>2. \A c \in Ids : step[c] \in Job => ticket[c] # 0
    BY DEF IInv, Phased
  <2>3. ASSUME NEW c \in Ids, Transact(c)
        PROVE  UNCHANGED <<jobs, Begun, Active>>
    BY <2>1, <2>3, JobStays DEF Transact, Arrives, Job
  <2>4. ASSUME NEW c \in Ids, Merge(c)
        PROVE  Serial!Submit
    BY <2>4, JobJoins DEF Merge, Arrives, Serial!Submit
  <2>5. ASSUME NEW c \in Ids, CommitEphemeral(c)
        PROVE  Serial!Submit \/ UNCHANGED <<jobs, Begun, Active>>
    <3>1. CASE kind[c] = "durable"
      BY <2>5, <3>1, JobJoins DEF CommitEphemeral, Serial!Submit
    <3>2. CASE kind[c] # "durable"
      BY <2>1, <2>5, <3>2, JobStays DEF CommitEphemeral, Job
    <3>3. QED
      BY <3>1, <3>2
  <2>6. ASSUME NEW c \in Ids, BeginJob(c)
        PROVE  \E t \in 1 .. jobs : Serial!Begin(t)
    BY <2>6, BeginsAlone, JobBegins
  <2>7. ASSUME NEW c \in Ids, CommitDurable(c)
        PROVE  UNCHANGED <<jobs, Begun, Active>>
    BY <2>2, <2>7, JobStays DEF CommitDurable, Job
  <2>8. ASSUME NEW c \in Ids, CommitPointer(c)
        PROVE  Serial!End
    BY <2>8, JobEnds DEF CommitPointer, Job, Serial!End
  <2>9. ASSUME NEW c \in Ids, CommitMerge(c)
        PROVE  Serial!End
    BY <2>9, JobEnds DEF CommitMerge, Job, Serial!End
  <2>10. ASSUME NEW c \in Ids, Announce(c)
         PROVE  UNCHANGED <<jobs, Begun, Active>>
    BY <2>10, JobStays DEF Announce, Job
  <2>11. ASSUME NEW c \in Ids, Fail(c)
         PROVE  Serial!End \/ UNCHANGED <<jobs, Begun, Active>>
    <3>1. CASE step[c] = "begun"
      BY <2>1, <2>11, <3>1, JobStays DEF Fail, Job
    <3>2. CASE step[c] # "begun"
      BY <2>11, <3>2, JobEnds DEF Fail, Job, Serial!End
    <3>3. QED
      BY <3>1, <3>2
  <2>12. CASE UNCHANGED vars
    BY <2>12 DEF vars, chain, Begun, Active
  <2>13. QED
    BY <2>3, <2>4, <2>5, <2>6, <2>7, <2>8, <2>9, <2>10, <2>11, <2>12
       DEF Next, Advance, Serial!SerialNext
<1>3. QED
  BY <1>1, <1>2, AlwaysInv, PTL DEF Spec, ImplementsSerial, Serial!SerialSpec, Serial!serialVars
=============================================================================
