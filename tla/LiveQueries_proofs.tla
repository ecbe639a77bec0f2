--------------------------- MODULE LiveQueries_proofs ---------------------------
(***************************************************************************)
(* Proofs that, for any number of requests, at most one evaluation of the  *)
(* query runs and the replica's map names it; and that every client gets   *)
(* the selections of its evaluation in step with the other forks of its    *)
(* channel.                                                                *)
(***************************************************************************)
EXTENDS LiveQueries, TLAPS

(* The types of what the argument is about, without queues and channels. *)
EvalTypes ==
  /\ subscriptions \in Requests \cup {None}
  /\ evals \in [Requests -> Streams]
  /\ upstream \in [Requests -> Requests \cup {None}]
  /\ linked \in [Requests -> {"none", "open", "ended", "cancelled"}]

(* An evaluation is in the map from the moment it is made until the handler
   of its closed promise has run; and a pipe leads to one that was made. *)
Registered ==
  /\ \A e \in Requests :
       /\ evals[e].state = "live" => evals[e].closed = "pending" /\ subscriptions = e
       /\ evals[e].state = "dead" => evals[e].closed # "pending"
       /\ evals[e].closed = "resolved" => subscriptions = e
       /\ evals[e].state = "unused" => evals[e].closed = "pending" /\ ~evals[e].polling
  /\ \A c \in Requests : linked[c] # "none" =>
       upstream[c] \in Requests /\ evals[upstream[c]].state # "unused"
  /\ subscriptions # None => evals[subscriptions].state # "unused"

EvalInv == EvalTypes /\ Registered

-----------------------------------------------------------------------------
(* What the stream operators return. *)
LEMMA StreamTypes ==
  ASSUME NEW s \in Streams, NEW p \in Requests
  PROVE  /\ Opened \in Streams /\ Opened.state = "live" /\ Opened.closed = "pending"
         /\ Connect(s, p) \in Streams /\ Connect(s, p).state = s.state
         /\ Connect(s, p).closed = s.closed /\ Connect(s, p).polling = s.polling
         /\ Connect(Opened, p) \in Streams
         /\ Connect(Opened, p).state = "live" /\ Connect(Opened, p).closed = "pending"
BY DEF Streams, Opened, NoStream, Connect

LEMMA StreamEnds ==
  ASSUME NEW s \in Streams
  PROVE  /\ Abort(s) \in Streams /\ Abort(s).state = "dead"
         /\ Abort(s).closed = IF s.closed = "pending" THEN "resolved" ELSE s.closed
         /\ Close(s) \in Streams /\ Close(s).state = "dead"
         /\ Close(s).closed = IF s.closed = "pending" THEN "resolved" ELSE s.closed
BY DEF Streams, Abort, Close

LEMMA StreamLeft ==
  ASSUME NEW s \in Streams, NEW p \in Requests
  PROVE  /\ Disconnect(s, p) \in Streams
         /\ \/ Disconnect(s, p) = Abort(s)
            \/ /\ Disconnect(s, p).state = s.state
               /\ Disconnect(s, p).closed = s.closed
               /\ Disconnect(s, p).polling = s.polling
BY StreamEnds DEF Streams, Disconnect

-----------------------------------------------------------------------------
LEMMA EvalInit == Init => EvalInv
<1> SUFFICES ASSUME Init PROVE EvalInv
  OBVIOUS
<1>1. NoStream \in Streams
  BY DEF NoStream, Streams
<1>2. EvalTypes
  BY <1>1 DEF Init, EvalTypes, None
<1>3. Registered
  BY <1>1 DEF Init, Registered, NoStream, None, Requests
<1> QED
  BY <1>2, <1>3 DEF EvalInv

(* A channel is attached to the evaluation in the map or to a new one. *)
LEMMA LoadKeepsEvalInv ==
  ASSUME EvalInv, NEW r \in Requests, Load(r)
  PROVE  EvalInv'
<1> USE DEF EvalInv
<1>0. None \notin Requests
  BY DEF None, Requests
<1>1. CASE subscriptions # None
  <2>1. Attach(r, subscriptions, evals[subscriptions])
    BY <1>1 DEF Load
  <2>2. subscriptions \in Requests /\ evals[subscriptions] \in Streams
    BY <1>1 DEF EvalTypes
  <2>3. /\ evals' = [evals EXCEPT ![subscriptions] = Connect(evals[subscriptions], r)]
        /\ subscriptions' = subscriptions
        /\ upstream' = [upstream EXCEPT ![r] = subscriptions]
        /\ linked' = [linked EXCEPT ![r] = "open"]
    BY <2>1 DEF Attach
  <2>4. /\ Connect(evals[subscriptions], r) \in Streams
        /\ Connect(evals[subscriptions], r).state = evals[subscriptions].state
        /\ Connect(evals[subscriptions], r).closed = evals[subscriptions].closed
        /\ Connect(evals[subscriptions], r).polling = evals[subscriptions].polling
    BY <2>2, StreamTypes
  <2>5. EvalTypes'
    BY <2>2, <2>3, <2>4 DEF EvalTypes
  <2>6. \A e \in Requests : /\ evals'[e].state = evals[e].state
                            /\ evals'[e].closed = evals[e].closed
                            /\ evals'[e].polling = evals[e].polling
    BY <2>2, <2>3, <2>4 DEF EvalTypes
  <2>7. Registered'
    BY <1>1, <2>2, <2>3, <2>6 DEF EvalTypes, Registered
  <2> QED
    BY <2>5, <2>7
<1>2. CASE subscriptions = None
  <2>1. Attach(r, r, Opened)
    BY <1>2 DEF Load
  <2>2. /\ evals' = [evals EXCEPT ![r] = Connect(Opened, r)]
        /\ subscriptions' = r
        /\ upstream' = [upstream EXCEPT ![r] = r]
        /\ linked' = [linked EXCEPT ![r] = "open"]
    BY <2>1 DEF Attach
  <2>3. evals[r] \in Streams
    BY DEF EvalTypes
  <2>4. /\ Connect(Opened, r) \in Streams
        /\ Connect(Opened, r).state = "live" /\ Connect(Opened, r).closed = "pending"
    BY <2>3, StreamTypes
  <2>5. EvalTypes'
    BY <2>2, <2>4 DEF EvalTypes
  <2>6. \A e \in Requests : evals[e].state # "live" /\ evals[e].closed # "resolved"
    BY <1>0, <1>2 DEF Registered
  <2>7. evals'[r].state = "live" /\ evals'[r].closed = "pending"
    BY <2>2, <2>4 DEF EvalTypes
  <2>8. \A e \in Requests : e # r => evals'[e] = evals[e]
    BY <2>2 DEF EvalTypes
  <2>9. Registered'
    BY <2>2, <2>6, <2>7, <2>8 DEF EvalTypes, Registered
  <2> QED
    BY <2>5, <2>9
<1> QED
  BY <1>1, <1>2

(* An evaluation that ends stays in the map until its handler has run. *)
LEMMA EndKeepsEvalInv ==
  ASSUME EvalInv, NEW e \in Requests, PortsEnd(e)
  PROVE  EvalInv'
<1> USE DEF EvalInv
<1>1. evals[e] \in Streams
  BY DEF EvalTypes
<1>2. /\ evals' = [evals EXCEPT ![e] = Close(evals[e])]
      /\ UNCHANGED <<subscriptions, upstream>>
      /\ evals[e].polling
  BY DEF PortsEnd, maps
<1>3. \A c \in Requests : linked'[c] # "none" => linked[c] # "none"
  <2> TAKE c \in Requests
  <2>1. linked'[c] = IF c \notin evals[e].ports THEN linked[c]
                     ELSE IF linked[c] = "open" THEN "ended" ELSE "none"
    BY DEF PortsEnd
  <2> QED
    BY <2>1
<1>4. linked' \in [Requests -> {"none", "open", "ended", "cancelled"}]
  BY DEF PortsEnd, EvalTypes
<1>5. EvalTypes'
  BY <1>1, <1>2, <1>4, StreamEnds DEF EvalTypes
<1>6. /\ evals'[e].state = "dead"
      /\ evals'[e].closed = IF evals[e].closed = "pending" THEN "resolved" ELSE evals[e].closed
  BY <1>1, <1>2, StreamEnds DEF EvalTypes
<1>7. \A d \in Requests : d # e => evals'[d] = evals[d]
  BY <1>2 DEF EvalTypes
<1>8. evals[e].state \in {"live", "dead"}
  BY <1>1, <1>2 DEF Registered, Streams
<1>9. Registered'
  BY <1>2, <1>3, <1>6, <1>7, <1>8 DEF EvalTypes, Registered
<1> QED
  BY <1>5, <1>9

(* A channel that is released takes its port out of its evaluation, which may
   be the last one. *)
LEMMA ReleaseKeepsEvalInv ==
  ASSUME EvalInv, NEW c \in Requests, Release(c)
  PROVE  EvalInv'
<1> USE DEF EvalInv
<1> DEFINE e == upstream[c]
<1>1. e \in Requests /\ evals[e].state # "unused"
  BY DEF Release, Registered
<1>2. evals[e] \in Streams
  BY <1>1 DEF EvalTypes
<1>3. /\ evals' = [evals EXCEPT ![e] = Disconnect(evals[e], c)]
      /\ linked' = [linked EXCEPT ![c] = "none"]
      /\ UNCHANGED <<subscriptions, upstream>>
  BY DEF Release, maps
<1>4. EvalTypes'
  BY <1>1, <1>2, <1>3, StreamLeft DEF EvalTypes
<1>5. evals'[e] = Disconnect(evals[e], c)
  BY <1>1, <1>3 DEF EvalTypes
<1>6. \A d \in Requests : d # e => evals'[d] = evals[d]
  BY <1>1, <1>3 DEF EvalTypes
<1>7. \A d \in Requests : linked'[d] # "none" => linked[d] # "none"
  BY <1>3 DEF EvalTypes
<1>8. CASE evals'[e] = Abort(evals[e])
  <2>1. /\ evals'[e].state = "dead"
        /\ evals'[e].closed = IF evals[e].closed = "pending" THEN "resolved" ELSE evals[e].closed
    BY <1>2, <1>8, StreamEnds
  <2>2. evals[e].state \in {"live", "dead"}
    BY <1>1, <1>2 DEF Streams
  <2>3. Registered'
    BY <1>1, <1>3, <1>6, <1>7, <2>1, <2>2 DEF EvalTypes, Registered
  <2> QED
    BY <1>4, <2>3
<1>9. CASE /\ evals'[e].state = evals[e].state
           /\ evals'[e].closed = evals[e].closed
           /\ evals'[e].polling = evals[e].polling
  <2>1. Registered'
    BY <1>1, <1>3, <1>6, <1>7, <1>9 DEF EvalTypes, Registered
  <2> QED
    BY <1>4, <2>1
<1> QED
  BY <1>2, <1>5, <1>8, <1>9, StreamLeft

(* The handler of an evaluation takes that evaluation out of the map. *)
LEMMA UnregisterKeepsEvalInv ==
  ASSUME EvalInv, NEW e \in Requests, UnregisterEval(e)
  PROVE  EvalInv'
<1> USE DEF EvalInv
<1>1. evals[e] \in Streams /\ evals[e].closed = "resolved"
  BY DEF EvalTypes, UnregisterEval
<1>2. /\ evals' = [evals EXCEPT ![e].closed = "handled", ![e].last = 0]
      /\ subscriptions' = None
      /\ UNCHANGED <<upstream, linked>>
  BY DEF UnregisterEval, pipes
<1>3. EvalTypes'
  BY <1>1, <1>2 DEF EvalTypes, Streams
<1>4. /\ evals'[e].closed = "handled"
      /\ evals'[e].state = evals[e].state /\ evals'[e].polling = evals[e].polling
  BY <1>1, <1>2 DEF EvalTypes, Streams
<1>5. \A d \in Requests : d # e => evals'[d] = evals[d]
  BY <1>2 DEF EvalTypes
<1>6. evals[e].state = "dead" /\ subscriptions = e
  BY <1>1 DEF Registered, Streams
<1>7. \A d \in Requests : d # e => evals[d].state # "live" /\ evals[d].closed # "resolved"
  BY <1>6 DEF Registered
<1>8. Registered'
  BY <1>2, <1>4, <1>5, <1>6, <1>7 DEF EvalTypes, Registered
<1> QED
  BY <1>3, <1>8

LEMMA ProduceKeepsEvalInv ==
  ASSUME EvalInv, NEW e \in Requests, Produce(e)
  PROVE  EvalInv'
<1> USE DEF EvalInv
<1>1. /\ evals[e] \in Streams /\ evals[e].last < MaxSelections
      /\ evals' = [evals EXCEPT ![e].last = evals[e].last + 1]
      /\ UNCHANGED <<subscriptions, upstream, linked>>
  BY DEF EvalTypes, Produce, maps
<1>2. evals[e].last + 1 \in Selections
  BY <1>1, QueriesAssumption DEF Streams, Selections
<1>3. EvalTypes'
  BY <1>1, <1>2 DEF EvalTypes, Streams
<1>4. \A d \in Requests : /\ evals'[d].state = evals[d].state
                          /\ evals'[d].closed = evals[d].closed
                          /\ evals'[d].polling = evals[d].polling
  BY <1>1 DEF EvalTypes, Streams
<1>5. Registered'
  BY <1>1, <1>4 DEF EvalTypes, Registered
<1> QED
  BY <1>3, <1>5

(* A client that leaves changes the evaluation's side of a pipe from open to
   cancelled at most. *)
LEMMA LeaveKeepsEvalInv ==
  ASSUME EvalInv, NEW r \in Requests, Leave(r)
  PROVE  EvalInv'
<1> USE DEF EvalInv
<1>1. UNCHANGED <<subscriptions, evals, upstream>>
  BY DEF Leave, maps
<1>2. \/ linked' = linked
      \/ linked[conn[r]] = "open" /\ linked' = [linked EXCEPT ![conn[r]] = "cancelled"]
  BY DEF Leave
<1>3. /\ linked' \in [Requests -> {"none", "open", "ended", "cancelled"}]
      /\ \A c \in Requests : linked'[c] # "none" => linked[c] # "none"
  BY <1>2 DEF EvalTypes
<1>4. EvalTypes'
  BY <1>1, <1>3 DEF EvalTypes
<1>5. Registered'
  BY <1>1, <1>3 DEF Registered
<1> QED
  BY <1>4, <1>5

LEMMA EvalStep == EvalInv /\ [Next]_vars => EvalInv'
<1> SUFFICES ASSUME EvalInv, [Next]_vars PROVE EvalInv'
  OBVIOUS
<1>1. CASE UNCHANGED vars
  BY <1>1 DEF vars, maps, pipes, EvalInv, EvalTypes, Registered
<1>2. CASE Next
  <2>1. PICK r \in Requests :
          \/ Join(r) \/ Miss(r) \/ NotFound(r) \/ Load(r) \/ Leave(r)
          \/ Produce(r) \/ SourceEnds(r) \/ Forward(r)
          \/ UnwindEval(r) \/ ChannelEnds(r) \/ Release(r)
          \/ Unregister(r) \/ UnregisterEval(r)
    BY <1>2 DEF Next
  <2>2. CASE Join(r) \/ Miss(r) \/ NotFound(r) \/ Forward(r) \/ ChannelEnds(r) \/ Unregister(r)
    <3>1. UNCHANGED <<subscriptions, evals, upstream, linked>>
      BY <2>2 DEF Join, Miss, NotFound, Forward, ChannelEnds, Unregister, maps, pipes
    <3> QED
      BY <3>1 DEF EvalInv, EvalTypes, Registered
  <2>3. CASE SourceEnds(r) \/ UnwindEval(r)
    BY <2>3, EndKeepsEvalInv DEF SourceEnds, UnwindEval
  <2> QED
    BY <2>1, <2>2, <2>3, LoadKeepsEvalInv, LeaveKeepsEvalInv, ProduceKeepsEvalInv,
       ReleaseKeepsEvalInv, UnregisterKeepsEvalInv
<1> QED
  BY <1>1, <1>2

-----------------------------------------------------------------------------
(* The replica never evaluates a query twice at a time, for any number of
   requests and selections: a running evaluation is the one in its map. *)
THEOREM SingleEvaluation == Spec => []OneEvaluation
<1>1. EvalInv => OneEvaluation
  BY DEF EvalInv, Registered, OneEvaluation
<1> QED
  BY <1>1, EvalInit, EvalStep, PTL DEF Spec

-----------------------------------------------------------------------------
Consecutive(s) == \A i \in 1 .. Len(s) - 1 : s[i + 1] = s[i] + 1

(* A request has no pipe before it has loaded the query, and gets selections
   only while it follows a channel. *)
Arrival == \A r \in Requests :
  /\ phase[r] \in {"new", "loading"} => linked[r] = "none"
  /\ IF phase[r] = "following" THEN conn[r] \in Requests ELSE inbox[r] = <<>>

(* The last selection that was sent to channel c. *)
Latest(c) == IF link[c] = <<>> THEN chans[c].last ELSE link[c][Len(link[c])]

(* The selections on their way to a running channel continue what it passed on
   up to what its evaluation produced. *)
Level(c) == chans[c].state = "live" =>
  /\ chans[c].closed = "pending"
  /\ Consecutive(link[c])
  /\ link[c] # <<>> /\ chans[c].last # 0 => link[c][1] = chans[c].last + 1
  /\ \A e \in Requests : c \in evals[e].ports /\ evals[e].state = "live" =>
       evals[e].last = Latest(c)
  /\ chans[c].last = 0 => \A r \in chans[c].ports : inbox[r] = <<>>

(* What ForksInStep says of one request. *)
InStep(r) ==
  /\ Consecutive(inbox[r])
  /\ \A c \in Requests : r \in chans[c].ports /\ chans[c].last # 0 =>
       inbox[r] # <<>> /\ inbox[r][Len(inbox[r])] = chans[c].last

ForkInv ==
  /\ EvalInv /\ TypeOK /\ Arrival
  /\ \A c \in Requests : Level(c)
  /\ \A r \in Requests : InStep(r)

LEMMA InStepForm == ForksInStep <=> \A r \in Requests : InStep(r)
BY DEF ForksInStep, InStep, Consecutive

LEMMA NoneLeft ==
  ASSUME NEW s \in Seq(Selections) PROVE s = <<>> <=> Len(s) = 0
OBVIOUS

LEMMA NextOne ==
  ASSUME NEW s \in Seq(Selections), NEW n \in Selections, Consecutive(s),
         s # <<>> => n = s[Len(s)] + 1
  PROVE  LET t == Append(s, n) IN
         /\ t \in Seq(Selections) /\ t # <<>> /\ Consecutive(t)
         /\ t[Len(t)] = n
         /\ t[1] = IF s = <<>> THEN n ELSE s[1]
<1> DEFINE t == Append(s, n)
<1>1. /\ t \in Seq(Selections) /\ Len(t) = Len(s) + 1 /\ t[Len(t)] = n /\ t # <<>>
      /\ \A i \in 1 .. Len(s) : t[i] = s[i]
  <2>1. t \in Seq(Selections) /\ Len(t) = Len(s) + 1
    OBVIOUS
  <2>2. t[Len(s) + 1] = n
    OBVIOUS
  <2>3. ASSUME NEW i \in 1 .. Len(s) PROVE t[i] = s[i]
    OBVIOUS
  <2>4. t # <<>>
    BY <2>1
  <2> QED
    BY <2>1, <2>2, <2>3, <2>4
<1>2. Len(s) \in Nat /\ (s = <<>> <=> Len(s) = 0)
  OBVIOUS
<1> HIDE DEF t
<1>3. ASSUME NEW i \in 1 .. Len(t) - 1 PROVE t[i + 1] = t[i] + 1
  <2>1. CASE i = Len(s)
    <3>1. s # <<>> /\ i \in 1 .. Len(s)
      BY <1>1, <1>2, <1>3, <2>1
    <3> QED
      BY <1>1, <2>1, <3>1
  <2>2. CASE i # Len(s)
    <3>1. i \in 1 .. Len(s) - 1 /\ i + 1 \in 1 .. Len(s) /\ i \in 1 .. Len(s)
      BY <1>1, <1>2, <1>3, <2>2
    <3> QED
      BY <1>1, <3>1 DEF Consecutive
  <2> QED
    BY <2>1, <2>2
<1>4. t[1] = IF s = <<>> THEN n ELSE s[1]
  BY <1>1, <1>2
<1> QED
  BY <1>1, <1>3, <1>4 DEF Consecutive, t

LEMMA FirstOff ==
  ASSUME NEW s \in Seq(Selections), s # <<>>, Consecutive(s)
  PROVE  /\ Head(s) \in Selections /\ Head(s) = s[1]
         /\ Tail(s) \in Seq(Selections) /\ Consecutive(Tail(s))
         /\ IF Tail(s) = <<>> THEN Head(s) = s[Len(s)]
            ELSE Tail(s)[1] = Head(s) + 1 /\ Tail(s)[Len(Tail(s))] = s[Len(s)]
<1> DEFINE t == Tail(s)
<1>1. /\ Head(s) \in Selections /\ Head(s) = s[1]
      /\ t \in Seq(Selections) /\ Len(t) = Len(s) - 1
      /\ \A i \in 1 .. Len(t) : t[i] = s[i + 1]
      /\ Len(s) \in Nat \ {0} /\ (t = <<>> <=> Len(t) = 0)
  <2>1. Len(s) \in Nat \ {0}
    OBVIOUS
  <2>2. Head(s) = s[1] /\ s[1] \in Selections
    BY <2>1
  <2>3. t \in Seq(Selections) /\ Len(t) = Len(s) - 1
    BY <2>1
  <2>4. ASSUME NEW i \in 1 .. Len(t) PROVE t[i] = s[i + 1]
    BY <2>1, <2>3
  <2>5. t = <<>> <=> Len(t) = 0
    BY <2>3, NoneLeft
  <2> QED
    BY <2>1, <2>2, <2>3, <2>4, <2>5
<1> HIDE DEF t
<1>2. ASSUME NEW i \in 1 .. Len(t) - 1 PROVE t[i + 1] = t[i] + 1
  <2>1. i \in 1 .. Len(t) /\ i + 1 \in 1 .. Len(t) /\ i + 1 \in 1 .. Len(s) - 1
    BY <1>1
  <2> QED
    BY <1>1, <2>1 DEF Consecutive
<1>3. IF t = <<>> THEN Head(s) = s[Len(s)]
      ELSE t[1] = Head(s) + 1 /\ t[Len(t)] = s[Len(s)]
  <2>1. CASE t = <<>>
    <3>1. Len(s) = 1
      BY <1>1, <2>1
    <3> QED
      BY <1>1, <2>1, <3>1
  <2>2. CASE t # <<>>
    <3>1. 1 \in 1 .. Len(t) /\ Len(t) \in 1 .. Len(t) /\ 1 \in 1 .. Len(s) - 1
      BY <1>1, <2>2
    <3> QED
      BY <1>1, <2>2, <3>1 DEF Consecutive
  <2> QED
    BY <2>1, <2>2
<1> QED
  BY <1>1, <1>2, <1>3 DEF Consecutive, t

(* The stream operators do not touch the last chunk. *)
LEMMA StreamKeeps ==
  ASSUME NEW s \in Streams, NEW p \in Requests
  PROVE  /\ Connect(s, p).last = s.last /\ Connect(s, p).ports = s.ports \cup {p}
         /\ Close(s).last = s.last /\ Close(s).ports = {}
         /\ Disconnect(s, p).last = s.last /\ Disconnect(s, p).ports = s.ports \ {p}
         /\ Disconnect(s, p).state \in {s.state, "dead"}
         /\ Disconnect(s, p).state = "live" => Disconnect(s, p).closed = s.closed
         /\ Replay(s) \in Seq(Selections)
         /\ Replay(s) = IF s.last = 0 THEN <<>> ELSE <<s.last>>
BY DEF Streams, Connect, Close, Abort, Disconnect, Replay

LEMMA OpenedIs ==
  ASSUME NEW p \in Requests
  PROVE  /\ Connect(Opened, p).last = 0 /\ Connect(Opened, p).ports = {p}
         /\ Replay(Opened) = <<>> /\ Opened.last = 0 /\ Opened.ports = {}
BY DEF Opened, NoStream, Connect, Replay

LEMMA Short ==
  ASSUME NEW n \in Selections
  PROVE  /\ <<>> \in Seq(Selections) /\ Consecutive(<<>>)
         /\ <<n>> \in Seq(Selections) /\ Consecutive(<<n>>)
         /\ <<n>> # <<>> /\ <<n>>[1] = n /\ Len(<<n>>) = 1
BY DEF Consecutive

LEMMA ForkInit == Init => ForkInv
<1> SUFFICES ASSUME Init PROVE ForkInv
  OBVIOUS
<1>1. NoStream \in Streams /\ NoStream.ports = {} /\ NoStream.state = "unused"
  BY DEF NoStream, Streams
<1>2. <<>> \in Seq(Selections)
  OBVIOUS
<1>3. TypeOK
  BY <1>1, <1>2 DEF Init, TypeOK
<1>4. Arrival /\ (\A c \in Requests : Level(c)) /\ \A r \in Requests : InStep(r)
  BY <1>1 DEF Init, Arrival, Level, InStep, Consecutive
<1> QED
  BY <1>3, <1>4, EvalInit DEF ForkInv

-----------------------------------------------------------------------------
(* Steps that move one request and touch no stream. *)
LEMMA MissKeeps ==
  ASSUME ForkInv, EvalInv', NEW r \in Requests, Miss(r) \/ NotFound(r)
  PROVE  ForkInv'
<1>1. /\ UNCHANGED <<sessions, subscriptions, chans, evals, upstream, link, linked, conn, inbox>>
      /\ phase[r] \in {"new", "loading"}
      /\ \E to \in {"loading", "gone"} : phase' = [phase EXCEPT ![r] = to]
  BY DEF Miss, NotFound, Arrives, maps, pipes
<1>2. phase[r] = "new" \/ phase[r] = "loading"
  BY <1>1
<1>3. TypeOK'
  BY <1>1 DEF ForkInv, TypeOK
<1>4. Arrival'
  BY <1>1 DEF ForkInv, TypeOK, Arrival
<1>5. (\A c \in Requests : Level(c)') /\ \A q \in Requests : InStep(q)'
  BY <1>1 DEF ForkInv, Level, Latest, InStep
<1> QED
  BY <1>3, <1>4, <1>5 DEF ForkInv

(* A request joins a channel and begins with the chunk that the channel kept. *)
LEMMA JoinKeeps ==
  ASSUME ForkInv, EvalInv', NEW r \in Requests, Join(r)
  PROVE  ForkInv'
<1> DEFINE c == sessions
           kept == Replay(chans[c])
<1>1. /\ phase[r] = "new" /\ c \in Requests
      /\ chans' = [chans EXCEPT ![c] = Connect(chans[c], r)]
      /\ phase' = [phase EXCEPT ![r] = "following"]
      /\ conn' = [conn EXCEPT ![r] = c]
      /\ inbox' = [inbox EXCEPT ![r] = kept]
      /\ UNCHANGED <<sessions, subscriptions, evals, upstream, link, linked>>
  BY DEF Join, Arrives, ForkInv, TypeOK, maps, pipes
<1>2. chans[c] \in Streams /\ chans \in [Requests -> Streams]
  BY <1>1 DEF ForkInv, TypeOK
<1>3. /\ chans'[c] \in Streams
      /\ chans'[c].ports = chans[c].ports \cup {r}
      /\ chans'[c].last = chans[c].last
      /\ chans'[c].state = chans[c].state /\ chans'[c].closed = chans[c].closed
      /\ \A d \in Requests : d # c => chans'[d] = chans[d]
  <2>1. c \in Requests
    BY <1>1
  <2> HIDE DEF c
  <2>2. chans'[c] = Connect(chans[c], r)
    BY <1>1, <1>2, <2>1
  <2>3. /\ Connect(chans[c], r) \in Streams
        /\ Connect(chans[c], r).state = chans[c].state
        /\ Connect(chans[c], r).closed = chans[c].closed
    BY <1>2, StreamTypes
  <2>4. /\ Connect(chans[c], r).last = chans[c].last
        /\ Connect(chans[c], r).ports = chans[c].ports \cup {r}
    BY <1>2, StreamKeeps
  <2>5. \A d \in Requests : d # c => chans'[d] = chans[d]
    BY <1>1, <1>2, <2>1
  <2> QED
    BY <2>2, <2>3, <2>4, <2>5
<1>4. /\ kept \in Seq(Selections)
      /\ kept = IF chans[c].last = 0 THEN <<>> ELSE <<chans[c].last>>
  BY <1>2, <1>1, StreamKeeps
<1>5. chans[c].last \in Selections \cup {0}
  BY <1>2 DEF Streams
<1> HIDE DEF c, kept
<1>6. /\ inbox'[r] = kept /\ phase'[r] = "following" /\ conn'[r] = c
      /\ \A q \in Requests : q # r => inbox'[q] = inbox[q] /\ phase'[q] = phase[q] /\ conn'[q] = conn[q]
  BY <1>1 DEF ForkInv, TypeOK
<1>7. \A d \in Requests : r \notin chans[d].ports
  BY <1>1 DEF ForkInv, TypeOK
<1>8. TypeOK'
  <2>1. chans' \in [Requests -> Streams]
    BY <1>1, <1>2, <1>3
  <2>2. inbox' \in [Requests -> Seq(Selections)]
    BY <1>1, <1>4 DEF ForkInv, TypeOK
  <2>3. /\ phase' \in [Requests -> {"new", "loading", "following", "gone"}]
        /\ conn' \in [Requests -> Requests \cup {None}]
    BY <1>1 DEF ForkInv, TypeOK
  <2>4. \A q, d \in Requests : q \in chans'[d].ports => phase'[q] = "following" /\ conn'[q] = d
    <3> TAKE q, d \in Requests
    <3>1. CASE q = r
      BY <1>3, <1>6, <1>7, <3>1
    <3>2. CASE q # r
      <4>1. q \in chans'[d].ports => q \in chans[d].ports
        BY <1>3, <3>2
      <4>2. q \in chans[d].ports => phase[q] = "following" /\ conn[q] = d
        BY DEF ForkInv, TypeOK
      <4> QED
        BY <1>6, <3>2, <4>1, <4>2
    <3> QED
      BY <3>1, <3>2
  <2> QED
    BY <1>1, <2>1, <2>2, <2>3, <2>4 DEF ForkInv, TypeOK
<1>9. Arrival'
  BY <1>1, <1>6 DEF ForkInv, Arrival
<1>10. ASSUME NEW d \in Requests PROVE Level(d)'
  <2>1. Level(d) /\ Latest(d)' = Latest(d)
    BY <1>1, <1>3 DEF ForkInv, Latest
  <2>2. CASE d = c
    BY <1>1, <1>3, <1>4, <1>6, <2>1, <2>2 DEF Level
  <2>3. CASE d # c
    BY <1>1, <1>3, <1>6, <1>7, <2>1, <2>3 DEF Level
  <2> QED
    BY <2>2, <2>3
<1>11. ASSUME NEW q \in Requests PROVE InStep(q)'
  <2>1. CASE q = r
    <3>1. Consecutive(kept)
      BY <1>4, <1>5, Short DEF Consecutive
    <3>2. \A d \in Requests : r \in chans'[d].ports => d = c
      BY <1>3, <1>7
    <3>3. chans[c].last # 0 => kept # <<>> /\ kept[Len(kept)] = chans[c].last
      BY <1>4, <1>5, Short
    <3> QED
      BY <1>3, <1>6, <2>1, <3>1, <3>2, <3>3 DEF InStep
  <2>2. CASE q # r
    BY <1>3, <1>6, <2>2 DEF ForkInv, InStep
  <2> QED
    BY <2>1, <2>2
<1> QED
  BY <1>8, <1>9, <1>10, <1>11 DEF ForkInv

(* A channel is opened on an evaluation v, which is the one in the map or a
   new one without ports. *)
LEMMA AttachKeeps ==
  ASSUME ForkInv, NEW r \in Requests, NEW e \in Requests, NEW v \in Streams,
         Attach(r, e, v), v = evals[e] \/ v.ports = {}, EvalInv'
  PROVE  ForkInv'
<1> DEFINE joined == Connect(v, r)
           opened == Connect(Opened, r)
           sent == Replay(v)
<1>1. /\ phase[r] = "loading"
      /\ evals' = [evals EXCEPT ![e] = joined] /\ subscriptions' = e
      /\ upstream' = [upstream EXCEPT ![r] = e] /\ link' = [link EXCEPT ![r] = sent]
      /\ linked' = [linked EXCEPT ![r] = "open"] /\ chans' = [chans EXCEPT ![r] = opened]
      /\ sessions' = r /\ phase' = [phase EXCEPT ![r] = "following"]
      /\ conn' = [conn EXCEPT ![r] = r] /\ UNCHANGED inbox
  BY DEF Attach
<1>2. /\ joined \in Streams /\ joined.state = v.state /\ joined.last = v.last
      /\ joined.ports = v.ports \cup {r}
  <2>1. Connect(v, r) \in Streams /\ Connect(v, r).state = v.state
    BY StreamTypes
  <2>2. Connect(v, r).last = v.last /\ Connect(v, r).ports = v.ports \cup {r}
    BY StreamKeeps
  <2> QED
    BY <2>1, <2>2
<1>3. /\ opened \in Streams /\ opened.closed = "pending" /\ opened.last = 0
      /\ opened.ports = {r}
  BY StreamTypes, OpenedIs
<1>4. sent \in Seq(Selections) /\ sent = IF v.last = 0 THEN <<>> ELSE <<v.last>>
  BY StreamKeeps
<1>5. v.last \in Selections \cup {0}
  BY DEF Streams
<1> HIDE DEF joined, opened, sent
<1>6. /\ chans' \in [Requests -> Streams] /\ evals' \in [Requests -> Streams]
      /\ link' \in [Requests -> Seq(Selections)]
  BY <1>1, <1>2, <1>3, <1>4 DEF ForkInv, TypeOK
<1>7. /\ chans'[r] = opened /\ evals'[e] = joined /\ link'[r] = sent
      /\ phase'[r] = "following" /\ conn'[r] = r /\ linked'[r] = "open" /\ upstream'[r] = e
  BY <1>1 DEF ForkInv, TypeOK
<1>8. \A q \in Requests : q # r =>
        /\ chans'[q] = chans[q] /\ link'[q] = link[q] /\ phase'[q] = phase[q]
        /\ conn'[q] = conn[q] /\ linked'[q] = linked[q] /\ upstream'[q] = upstream[q]
  BY <1>1 DEF ForkInv, TypeOK
<1>9. \A d \in Requests : d # e => evals'[d] = evals[d]
  BY <1>1 DEF ForkInv, TypeOK
<1>10. \A d \in Requests : r \notin chans[d].ports /\ r \notin evals[d].ports
  BY <1>1 DEF ForkInv, TypeOK, Arrival
<1>11. inbox[r] = <<>>
  BY <1>1 DEF ForkInv, Arrival
<1>12. \A c, d \in Requests : c # r /\ c \in evals'[d].ports =>
         c \in evals[d].ports /\ evals'[d].last = evals[d].last /\ evals'[d].state = evals[d].state
  BY <1>2, <1>7, <1>9
<1>13. TypeOK'
  <2>1. \A q, c \in Requests : q \in chans'[c].ports => phase'[q] = "following" /\ conn'[q] = c
    <3> TAKE q, c \in Requests
    <3>1. CASE q = r
      BY <1>3, <1>7, <1>8, <1>10, <3>1
    <3>2. CASE q # r
      <4>1. q \in chans'[c].ports => q \in chans[c].ports
        BY <1>3, <1>7, <1>8, <3>2
      <4> QED
        BY <1>8, <3>2, <4>1 DEF ForkInv, TypeOK
    <3> QED
      BY <3>1, <3>2
  <2>2. \A c, d \in Requests : c \in evals'[d].ports =>
          linked'[c] \in {"open", "cancelled"} /\ upstream'[c] = d
    <3> TAKE c, d \in Requests
    <3>1. CASE c = r
      BY <1>7, <1>9, <1>10, <3>1
    <3>2. CASE c # r
      BY <1>8, <1>12, <3>2 DEF ForkInv, TypeOK
    <3> QED
      BY <3>1, <3>2
  <2>3. /\ sessions' \in Requests \cup {None} /\ subscriptions' \in Requests \cup {None}
        /\ upstream' \in [Requests -> Requests \cup {None}]
        /\ linked' \in [Requests -> {"none", "open", "ended", "cancelled"}]
        /\ phase' \in [Requests -> {"new", "loading", "following", "gone"}]
        /\ conn' \in [Requests -> Requests \cup {None}]
        /\ inbox' \in [Requests -> Seq(Selections)]
    BY <1>1 DEF ForkInv, TypeOK
  <2> QED
    BY <1>6, <2>1, <2>2, <2>3 DEF TypeOK
<1>14. Arrival'
  BY <1>1, <1>7, <1>8, <1>11 DEF ForkInv, Arrival
<1>15. ASSUME NEW c \in Requests PROVE Level(c)'
  <2>1. CASE c = r
    <3>1. Consecutive(sent) /\ (IF sent = <<>> THEN 0 ELSE sent[Len(sent)]) = v.last
      <4>1. CASE v.last = 0
        <5>1. sent = <<>>
          BY <1>4, <4>1
        <5> QED
          BY <4>1, <5>1 DEF Consecutive
      <4>2. CASE v.last # 0
        BY <1>4, <1>5, <4>2, Short
      <4> QED
        BY <4>1, <4>2
    <3>2. Latest(r)' = v.last
      BY <1>3, <1>7, <3>1 DEF Latest
    <3>3. \A d \in Requests : r \in evals'[d].ports => d = e
      BY <1>9, <1>10
    <3> QED
      BY <1>1, <1>2, <1>3, <1>7, <1>11, <2>1, <3>1, <3>2, <3>3 DEF Level
  <2>2. CASE c # r
    <3>1. Latest(c)' = Latest(c) /\ Level(c)
      BY <1>8, <2>2 DEF ForkInv, Latest
    <3> QED
      BY <1>1, <1>8, <1>12, <2>2, <3>1 DEF Level
  <2> QED
    BY <2>1, <2>2
<1>16. ASSUME NEW q \in Requests PROVE InStep(q)'
  BY <1>1, <1>3, <1>7, <1>8 DEF ForkInv, InStep
<1> QED
  BY <1>13, <1>14, <1>15, <1>16 DEF ForkInv

LEMMA LoadKeeps ==
  ASSUME ForkInv, EvalInv', NEW r \in Requests, Load(r)
  PROVE  ForkInv'
<1>1. CASE subscriptions # None
  <2>1. subscriptions \in Requests /\ evals[subscriptions] \in Streams
    BY <1>1 DEF ForkInv, TypeOK
  <2> QED
    BY <1>1, <2>1, AttachKeeps DEF Load
<1>2. CASE subscriptions = None
  <2>1. Opened \in Streams /\ Opened.ports = {}
    BY DEF Opened, NoStream, Streams
  <2> QED
    BY <1>2, <2>1, AttachKeeps DEF Load
<1> QED
  BY <1>1, <1>2

-----------------------------------------------------------------------------
(* What a push does to each queue. *)
LEMMA PushTo ==
  ASSUME NEW queues \in [Requests -> Seq(Selections)],
         NEW ports \in SUBSET Requests, NEW n \in Selections
  PROVE  /\ Pushed(queues, ports, n) \in [Requests -> Seq(Selections)]
         /\ \A q \in Requests : Pushed(queues, ports, n)[q] =
              IF q \in ports THEN Append(queues[q], n) ELSE queues[q]
<1>1. \A q \in Requests : Append(queues[q], n) \in Seq(Selections)
  OBVIOUS
<1> QED
  BY <1>1 DEF Pushed

(* A selection of evaluation e is the next one for each of its channels: none
   has another evaluation that runs. *)
LEMMA ProduceKeeps ==
  ASSUME ForkInv, EvalInv', NEW e \in Requests, Produce(e)
  PROVE  ForkInv'
<1> DEFINE n == evals[e].last + 1
<1>1. /\ evals[e].state = "live" /\ evals[e].last < MaxSelections
      /\ evals' = [evals EXCEPT ![e].last = n]
      /\ link' = Pushed(link, evals[e].ports, n)
      /\ UNCHANGED <<sessions, subscriptions, chans, upstream, linked, phase, conn, inbox>>
  BY DEF Produce, maps, clients
<1>2. evals[e] \in Streams
  BY DEF ForkInv, TypeOK
<1>3. n \in Selections
  BY <1>1, <1>2, QueriesAssumption DEF Streams, Selections
<1>4. /\ evals' \in [Requests -> Streams]
      /\ evals'[e].last = n
      /\ \A d \in Requests : /\ evals'[d].ports = evals[d].ports /\ evals'[d].state = evals[d].state
                             /\ d # e => evals'[d].last = evals[d].last
  <2>1. evals \in [Requests -> Streams]
    BY DEF ForkInv, TypeOK
  <2> HIDE DEF n
  <2>2. [evals[e] EXCEPT !.last = n] \in Streams
    BY <1>2, <1>3 DEF Streams
  <2>3. evals' = [evals EXCEPT ![e] = [evals[e] EXCEPT !.last = n]]
    BY <1>1
  <2>4. /\ evals'[e] = [evals[e] EXCEPT !.last = n] /\ evals' \in [Requests -> Streams]
        /\ \A d \in Requests : d # e => evals'[d] = evals[d]
    BY <2>1, <2>2, <2>3
  <2>5. /\ evals'[e].last = n /\ evals'[e].ports = evals[e].ports
        /\ evals'[e].state = evals[e].state
    BY <1>2, <2>4 DEF Streams
  <2> QED
    BY <2>4, <2>5
<1> HIDE DEF n
<1>5. /\ link' \in [Requests -> Seq(Selections)]
      /\ \A c \in Requests : link'[c] = IF c \in evals[e].ports THEN Append(link[c], n) ELSE link[c]
  <2>1. link \in [Requests -> Seq(Selections)] /\ evals[e].ports \in SUBSET Requests
    BY <1>2 DEF ForkInv, TypeOK, Streams
  <2> DEFINE ports == evals[e].ports
             pushed == Pushed(link, ports, n)
  <2>2. link' = pushed
    BY <1>1
  <2>3. ports \in SUBSET Requests
    BY <2>1
  <2> HIDE DEF ports
  <2>4. link \in [Requests -> Seq(Selections)]
    BY <2>1
  <2>5. /\ pushed \in [Requests -> Seq(Selections)]
        /\ \A c \in Requests : pushed[c] = IF c \in ports THEN Append(link[c], n) ELSE link[c]
    <3>1. Pushed(link, ports, n) \in [Requests -> Seq(Selections)]
      BY <1>3, <2>3, <2>4, PushTo
    <3>2. ASSUME NEW c \in Requests
          PROVE  Pushed(link, ports, n)[c] = IF c \in ports THEN Append(link[c], n) ELSE link[c]
      BY <1>3, <2>3, <2>4, PushTo
    <3> QED
      BY <3>1, <3>2
  <2> HIDE DEF pushed
  <2> QED
    BY <2>2, <2>5 DEF ports
<1>6. TypeOK'
  BY <1>1, <1>4, <1>5 DEF ForkInv, TypeOK
<1>7. Arrival'
  BY <1>1 DEF ForkInv, Arrival
<1>8. \A q \in Requests : InStep(q)'
  BY <1>1 DEF ForkInv, InStep
<1>9. ASSUME NEW c \in Requests, chans[c].state = "live" PROVE Level(c)'
  <2>1. Level(c) /\ link[c] \in Seq(Selections) /\ chans[c].last \in Selections \cup {0}
    BY DEF ForkInv, TypeOK, Streams
  <2>2. CASE c \notin evals[e].ports
    <3>1. Latest(c)' = Latest(c) /\ link'[c] = link[c]
      BY <1>1, <1>5, <2>2 DEF Latest
    <3> QED
      BY <1>1, <1>4, <2>1, <2>2, <3>1 DEF Level
  <2>3. CASE c \in evals[e].ports
    <3>1. n = Latest(c) + 1
      BY <1>1, <1>9, <2>1, <2>3 DEF n, Level
    <3>2. link[c] # <<>> => n = link[c][Len(link[c])] + 1
      BY <3>1 DEF Latest
    <3>3. /\ link'[c] # <<>> /\ Consecutive(link'[c]) /\ link'[c][Len(link'[c])] = n
          /\ link'[c][1] = IF link[c] = <<>> THEN n ELSE link[c][1]
      <4>1. link'[c] = Append(link[c], n) /\ Consecutive(link[c])
        BY <1>5, <1>9, <2>1, <2>3 DEF Level
      <4> QED
        BY <1>3, <2>1, <3>2, <4>1, NextOne
    <3>4. Latest(c)' = n
      BY <3>3 DEF Latest
    <3>5. link'[c] # <<>> /\ chans[c].last # 0 => link'[c][1] = chans[c].last + 1
      BY <1>9, <2>1, <3>1, <3>3 DEF Level, Latest
    <3>6. \A d \in Requests : c \in evals[d].ports => d = e
      BY <2>3 DEF ForkInv, TypeOK
    <3> QED
      BY <1>1, <1>4, <1>9, <2>1, <3>3, <3>4, <3>5, <3>6 DEF Level
  <2> QED
    BY <2>2, <2>3
<1>10. \A c \in Requests : Level(c)'
  <2> TAKE c \in Requests
  <2>1. CASE chans[c].state = "live"
    BY <1>9, <2>1
  <2>2. CASE chans[c].state # "live"
    BY <1>1, <2>2 DEF Level
  <2> QED
    BY <2>1, <2>2
<1> QED
  BY <1>6, <1>7, <1>8, <1>10 DEF ForkInv

(* A channel passes its oldest selection on to all its forks, which have all
   got the one before. *)
LEMMA ForwardKeeps ==
  ASSUME ForkInv, EvalInv', NEW c \in Requests, Forward(c)
  PROVE  ForkInv'
<1> DEFINE n == Head(link[c])
           rest == Tail(link[c])
           ports == chans[c].ports
           pushed == Pushed(inbox, ports, n)
<1>1. /\ chans[c].state = "live" /\ link[c] # <<>>
      /\ link' = [link EXCEPT ![c] = rest]
      /\ chans' = [chans EXCEPT ![c] = [chans[c] EXCEPT !.last = n]]
      /\ inbox' = pushed
      /\ UNCHANGED <<sessions, subscriptions, evals, upstream, linked, phase, conn>>
  BY DEF Forward, maps
<1>2. Level(c) /\ link[c] \in Seq(Selections) /\ chans[c] \in Streams
  BY DEF ForkInv, TypeOK
<1>3. /\ n \in Selections /\ n = link[c][1]
      /\ rest \in Seq(Selections) /\ Consecutive(rest)
      /\ IF rest = <<>> THEN n = link[c][Len(link[c])]
         ELSE rest[1] = n + 1 /\ rest[Len(rest)] = link[c][Len(link[c])]
  BY <1>1, <1>2, FirstOff DEF Level
<1> HIDE DEF n, rest
<1>4. n # 0 /\ (chans[c].last # 0 => n = chans[c].last + 1)
  BY <1>1, <1>2, <1>3 DEF Level, Selections
<1>5. /\ pushed \in [Requests -> Seq(Selections)]
      /\ \A q \in Requests : pushed[q] = IF q \in ports THEN Append(inbox[q], n) ELSE inbox[q]
  <2>1. inbox \in [Requests -> Seq(Selections)] /\ ports \in SUBSET Requests
    BY <1>2 DEF ForkInv, TypeOK, Streams
  <2> HIDE DEF ports
  <2> QED
    BY <1>3, <2>1, PushTo
<1> HIDE DEF pushed
<1>6. [chans[c] EXCEPT !.last = n] \in Streams
  BY <1>2, <1>3 DEF Streams
<1>7. /\ chans' \in [Requests -> Streams] /\ link' \in [Requests -> Seq(Selections)]
      /\ chans'[c] = [chans[c] EXCEPT !.last = n] /\ link'[c] = rest
      /\ \A d \in Requests : d # c => chans'[d] = chans[d] /\ link'[d] = link[d]
  BY <1>1, <1>3, <1>6 DEF ForkInv, TypeOK
<1>8. /\ chans'[c].last = n /\ chans'[c].ports = ports
      /\ chans'[c].state = "live" /\ chans'[c].closed = chans[c].closed
  BY <1>1, <1>2, <1>7 DEF Streams
<1>9. \A q, d \in Requests : q \in ports /\ q \in chans[d].ports => d = c
  BY DEF ForkInv, TypeOK
<1>10. TypeOK'
  <2>1. \A d \in Requests : chans'[d].ports = chans[d].ports
    BY <1>7, <1>8
  <2>2. \A q, d \in Requests : q \in chans'[d].ports => phase'[q] = "following" /\ conn'[q] = d
    BY <1>1, <2>1 DEF ForkInv, TypeOK
  <2>3. \A d, e \in Requests : d \in evals'[e].ports =>
          linked'[d] \in {"open", "cancelled"} /\ upstream'[d] = e
    BY <1>1 DEF ForkInv, TypeOK
  <2>4. /\ sessions' \in Requests \cup {None} /\ subscriptions' \in Requests \cup {None}
        /\ evals' \in [Requests -> Streams] /\ upstream' \in [Requests -> Requests \cup {None}]
        /\ linked' \in [Requests -> {"none", "open", "ended", "cancelled"}]
        /\ phase' \in [Requests -> {"new", "loading", "following", "gone"}]
        /\ conn' \in [Requests -> Requests \cup {None}]
    BY <1>1 DEF ForkInv, TypeOK
  <2>5. inbox' \in [Requests -> Seq(Selections)]
    BY <1>1, <1>5
  <2> QED
    BY <1>7, <2>2, <2>3, <2>4, <2>5 DEF TypeOK
<1>11. Arrival'
  <2>1. \A q \in Requests : q \in ports => phase[q] = "following"
    BY DEF ForkInv, TypeOK
  <2> QED
    BY <1>1, <1>5, <2>1 DEF ForkInv, Arrival
<1>12. ASSUME NEW d \in Requests PROVE Level(d)'
  <2>1. CASE d = c
    <3>1. Latest(c)' = Latest(c)
      BY <1>1, <1>3, <1>7, <1>8 DEF Latest
    <3> QED
      BY <1>1, <1>2, <1>3, <1>4, <1>7, <1>8, <2>1, <3>1 DEF Level
  <2>2. CASE d # c
    <3>1. Latest(d)' = Latest(d) /\ Level(d)
      BY <1>7, <2>2 DEF ForkInv, Latest
    <3>2. \A q \in chans[d].ports : q \in Requests => inbox'[q] = inbox[q]
      BY <1>1, <1>5, <1>9, <2>2
    <3>3. chans[d].ports \subseteq Requests
      BY DEF ForkInv, TypeOK, Streams
    <3> QED
      BY <1>1, <1>7, <2>2, <3>1, <3>2, <3>3 DEF Level
  <2> QED
    BY <2>1, <2>2
<1>13. ASSUME NEW q \in Requests PROVE InStep(q)'
  <2>1. CASE q \in ports
    <3>1. inbox'[q] = Append(inbox[q], n) /\ inbox[q] \in Seq(Selections) /\ Consecutive(inbox[q])
      BY <1>1, <1>5, <2>1 DEF ForkInv, TypeOK, InStep
    <3>2. inbox[q] # <<>> => n = inbox[q][Len(inbox[q])] + 1
      BY <1>1, <1>2, <1>4, <2>1 DEF ForkInv, InStep, Level
    <3>3. inbox'[q] # <<>> /\ Consecutive(inbox'[q]) /\ inbox'[q][Len(inbox'[q])] = n
      BY <1>3, <3>1, <3>2, NextOne
    <3>4. \A d \in Requests : q \in chans'[d].ports => d = c
      BY <1>7, <1>8, <1>9, <2>1
    <3> QED
      BY <1>8, <3>3, <3>4 DEF InStep
  <2>2. CASE q \notin ports
    <3>1. inbox'[q] = inbox[q] /\ q \notin chans'[c].ports
      BY <1>1, <1>5, <1>8, <2>2
    <3>2. InStep(q)
      BY DEF ForkInv
    <3>3. Consecutive(inbox'[q])
      BY <3>1, <3>2 DEF InStep
    <3>4. \A d \in Requests : q \in chans'[d].ports => d # c /\ chans'[d] = chans[d]
      BY <1>7, <3>1
    <3> QED
      BY <3>1, <3>2, <3>3, <3>4 DEF InStep
  <2> QED
    BY <2>1, <2>2
<1> QED
  BY <1>10, <1>11, <1>12, <1>13 DEF ForkInv

-----------------------------------------------------------------------------
(* An evaluation that ends lets go of its channels. *)
LEMMA EndKeeps ==
  ASSUME ForkInv, EvalInv', NEW e \in Requests, PortsEnd(e)
  PROVE  ForkInv'
<1>1. /\ evals' = [evals EXCEPT ![e] = Close(evals[e])]
      /\ UNCHANGED <<sessions, subscriptions, chans, upstream, link, phase, conn, inbox>>
      /\ \A c \in Requests : linked'[c] = IF c \notin evals[e].ports THEN linked[c]
                               ELSE IF linked[c] = "open" THEN "ended" ELSE "none"
      /\ linked' \in [Requests -> {"none", "open", "ended", "cancelled"}]
  BY DEF PortsEnd, maps, clients, ForkInv, TypeOK
<1>2. evals[e] \in Streams
  BY DEF ForkInv, TypeOK
<1>3. Close(evals[e]) \in Streams /\ Close(evals[e]).ports = {} /\ Close(evals[e]).state = "dead"
  BY <1>2, StreamEnds, StreamKeeps
<1>4. /\ evals' \in [Requests -> Streams] /\ evals'[e].ports = {} /\ evals'[e].state = "dead"
      /\ \A d \in Requests : d # e => evals'[d] = evals[d]
  BY <1>1, <1>3 DEF ForkInv, TypeOK
<1>5. \A c, d \in Requests : c \in evals'[d].ports =>
        c \in evals[d].ports /\ c \notin evals[e].ports
  <2> TAKE c, d \in Requests
  <2>1. CASE d = e
    BY <1>4, <2>1
  <2>2. CASE d # e
    BY <1>4, <2>2 DEF ForkInv, TypeOK
  <2> QED
    BY <2>1, <2>2
<1>6. \A c, d \in Requests : c \in evals'[d].ports =>
        linked'[c] \in {"open", "cancelled"} /\ upstream'[c] = d
  BY <1>1, <1>5 DEF ForkInv, TypeOK
<1>7. TypeOK'
  BY <1>1, <1>4, <1>6 DEF ForkInv, TypeOK
<1>8. Arrival'
  <2>1. \A r \in Requests : phase[r] \in {"new", "loading"} => r \notin evals[e].ports
    BY DEF ForkInv, Arrival, TypeOK
  <2> QED
    BY <1>1, <2>1 DEF ForkInv, Arrival
<1>9. ASSUME NEW c \in Requests PROVE Level(c)'
  <2>1. Latest(c)' = Latest(c) /\ Level(c)
    BY <1>1 DEF ForkInv, Latest
  <2> QED
    BY <1>1, <1>4, <2>1 DEF Level
<1>10. \A q \in Requests : InStep(q)'
  BY <1>1 DEF ForkInv, InStep
<1> QED
  BY <1>7, <1>8, <1>9, <1>10 DEF ForkInv

(* A channel that ends takes its clients with it, and only those. *)
LEMMA ChannelEndsKeeps ==
  ASSUME ForkInv, EvalInv', NEW c \in Requests, ChannelEnds(c)
  PROVE  ForkInv'
<1> DEFINE ports == chans[c].ports
<1>1. /\ chans' = [chans EXCEPT ![c] = Close(chans[c])]
      /\ phase' = [r \in Requests |-> IF r \in ports THEN "gone" ELSE phase[r]]
      /\ conn' = [r \in Requests |-> IF r \in ports THEN None ELSE conn[r]]
      /\ inbox' = [r \in Requests |-> IF r \in ports THEN <<>> ELSE inbox[r]]
      /\ UNCHANGED <<sessions, subscriptions, evals, upstream, link, linked>>
  BY DEF ChannelEnds, maps, pipes
<1>2. chans[c] \in Streams
  BY DEF ForkInv, TypeOK
<1>3. Close(chans[c]) \in Streams /\ Close(chans[c]).ports = {} /\ Close(chans[c]).state = "dead"
  BY <1>2, StreamEnds, StreamKeeps
<1>4. /\ chans' \in [Requests -> Streams] /\ chans'[c].ports = {} /\ chans'[c].state = "dead"
      /\ \A d \in Requests : d # c => chans'[d] = chans[d]
  BY <1>1, <1>3 DEF ForkInv, TypeOK
<1>5. \A r \in Requests :
        /\ r \in ports => phase'[r] = "gone" /\ conn'[r] = None /\ inbox'[r] = <<>>
        /\ r \notin ports => phase'[r] = phase[r] /\ conn'[r] = conn[r] /\ inbox'[r] = inbox[r]
  BY <1>1
<1>6. \A r, d \in Requests : r \in chans'[d].ports => r \in chans[d].ports /\ d # c /\ r \notin ports
  BY <1>4 DEF ForkInv, TypeOK
<1>7. TypeOK'
  <2>1. /\ phase' \in [Requests -> {"new", "loading", "following", "gone"}]
        /\ conn' \in [Requests -> Requests \cup {None}]
        /\ inbox' \in [Requests -> Seq(Selections)]
    BY <1>1 DEF ForkInv, TypeOK
  <2>2. \A r, d \in Requests : r \in chans'[d].ports => phase'[r] = "following" /\ conn'[r] = d
    BY <1>5, <1>6 DEF ForkInv, TypeOK
  <2> QED
    BY <1>1, <1>4, <2>1, <2>2 DEF ForkInv, TypeOK
<1>8. Arrival'
  BY <1>1, <1>5 DEF ForkInv, Arrival
<1>9. ASSUME NEW d \in Requests PROVE Level(d)'
  <2>1. Level(d)
    BY DEF ForkInv
  <2>2. CASE d = c
    BY <1>4, <2>2 DEF Level
  <2>3. CASE d # c
    <3>1. Latest(d)' = Latest(d)
      BY <1>1, <1>4, <2>3 DEF Latest
    <3>2. chans[d].ports \subseteq Requests
      BY DEF ForkInv, TypeOK, Streams
    <3> QED
      BY <1>1, <1>4, <1>5, <2>1, <2>3, <3>1, <3>2 DEF Level
  <2> QED
    BY <2>2, <2>3
<1>10. ASSUME NEW q \in Requests PROVE InStep(q)'
  <2>1. InStep(q)
    BY DEF ForkInv
  <2>2. Consecutive(inbox'[q])
    BY <1>5, <2>1 DEF InStep, Consecutive
  <2> QED
    BY <1>4, <1>5, <1>6, <2>1, <2>2 DEF InStep
<1> QED
  BY <1>7, <1>8, <1>9, <1>10 DEF ForkInv

(* A client that leaves takes its fork out of its channel. *)
LEMMA LeaveKeeps ==
  ASSUME ForkInv, EvalInv', NEW r \in Requests, Leave(r)
  PROVE  ForkInv'
<1> DEFINE c == conn[r]
           left == Disconnect(chans[c], r)
<1>1. /\ phase[r] = "following"
      /\ phase' = [phase EXCEPT ![r] = "gone"]
      /\ chans' = [chans EXCEPT ![c] = left]
      /\ \/ chans'[c].state = "dead" /\ linked[c] = "open"
            /\ linked' = [linked EXCEPT ![c] = "cancelled"] /\ link' = [link EXCEPT ![c] = <<>>]
         \/ UNCHANGED <<link, linked>>
      /\ conn' = [conn EXCEPT ![r] = None] /\ inbox' = [inbox EXCEPT ![r] = <<>>]
      /\ UNCHANGED <<sessions, subscriptions, evals, upstream>>
  BY DEF Leave, maps
<1>2. c \in Requests /\ chans[c] \in Streams
  BY <1>1 DEF ForkInv, TypeOK, Arrival
<1>3. /\ left \in Streams /\ left.last = chans[c].last /\ left.ports = chans[c].ports \ {r}
      /\ left.state \in {chans[c].state, "dead"}
      /\ left.state = "live" => left.closed = chans[c].closed
  BY <1>2, StreamLeft, StreamKeeps
<1> HIDE DEF c, left
<1>4. /\ chans' \in [Requests -> Streams] /\ chans'[c] = left
      /\ \A d \in Requests : d # c => chans'[d] = chans[d]
  BY <1>1, <1>2, <1>3 DEF ForkInv, TypeOK
<1>5. /\ phase'[r] = "gone" /\ conn'[r] = None /\ inbox'[r] = <<>>
      /\ \A q \in Requests : q # r => phase'[q] = phase[q] /\ conn'[q] = conn[q] /\ inbox'[q] = inbox[q]
  BY <1>1 DEF ForkInv, TypeOK
<1>6. /\ linked' \in [Requests -> {"none", "open", "ended", "cancelled"}]
      /\ link' \in [Requests -> Seq(Selections)]
      /\ \A d \in Requests : linked'[d] = linked[d] \/ (linked[d] = "open" /\ linked'[d] = "cancelled")
      /\ \A d \in Requests : link'[d] = link[d] \/ (d = c /\ chans'[c].state = "dead")
  <2>1. CASE UNCHANGED <<link, linked>>
    BY <2>1 DEF ForkInv, TypeOK
  <2>2. CASE /\ chans'[c].state = "dead" /\ linked[c] = "open"
             /\ linked' = [linked EXCEPT ![c] = "cancelled"] /\ link' = [link EXCEPT ![c] = <<>>]
    <3>1. \A d \in Requests : d # c => link'[d] = link[d] /\ linked'[d] = linked[d]
      BY <2>2 DEF ForkInv, TypeOK
    <3>2. linked'[c] = "cancelled"
      BY <1>2, <2>2 DEF ForkInv, TypeOK
    <3>3. linked' \in [Requests -> {"none", "open", "ended", "cancelled"}]
      BY <2>2 DEF ForkInv, TypeOK
    <3>4. link' \in [Requests -> Seq(Selections)]
      <4>1. <<>> \in Seq(Selections)
        OBVIOUS
      <4> QED
        BY <2>2, <4>1 DEF ForkInv, TypeOK
    <3> QED
      BY <2>2, <3>1, <3>2, <3>3, <3>4
  <2> QED
    BY <1>1, <2>1, <2>2
<1>7. \A q, d \in Requests : q \in chans'[d].ports => q \in chans[d].ports /\ q # r
  <2> TAKE q, d \in Requests
  <2>1. CASE d = c
    BY <1>3, <1>4, <2>1
  <2>2. CASE d # c
    BY <1>4, <2>2 DEF ForkInv, TypeOK, c
  <2> QED
    BY <2>1, <2>2
<1>8. TypeOK'
  <2>1. /\ phase' \in [Requests -> {"new", "loading", "following", "gone"}]
        /\ conn' \in [Requests -> Requests \cup {None}]
        /\ inbox' \in [Requests -> Seq(Selections)]
    BY <1>1 DEF ForkInv, TypeOK
  <2>2. \A q, d \in Requests : q \in chans'[d].ports => phase'[q] = "following" /\ conn'[q] = d
    BY <1>5, <1>7 DEF ForkInv, TypeOK
  <2>3. \A d, e \in Requests : d \in evals'[e].ports =>
          linked'[d] \in {"open", "cancelled"} /\ upstream'[d] = e
    BY <1>1, <1>6 DEF ForkInv, TypeOK
  <2>4. /\ sessions' \in Requests \cup {None} /\ subscriptions' \in Requests \cup {None}
        /\ evals' \in [Requests -> Streams] /\ upstream' \in [Requests -> Requests \cup {None}]
    BY <1>1 DEF ForkInv, TypeOK
  <2>5. /\ chans' \in [Requests -> Streams] /\ link' \in [Requests -> Seq(Selections)]
        /\ linked' \in [Requests -> {"none", "open", "ended", "cancelled"}]
    BY <1>4, <1>6
  <2> QED
    BY <2>1, <2>2, <2>3, <2>4, <2>5 DEF TypeOK
<1>9. Arrival'
  <2>1. ASSUME NEW q \in Requests
        PROVE  /\ phase'[q] \in {"new", "loading"} => linked'[q] = "none"
               /\ IF phase'[q] = "following" THEN conn'[q] \in Requests ELSE inbox'[q] = <<>>
    <3>1. CASE q = r
      BY <1>5, <3>1
    <3>2. CASE q # r
      <4>1. phase'[q] = phase[q] /\ conn'[q] = conn[q] /\ inbox'[q] = inbox[q]
        BY <1>5, <3>2
      <4>2. /\ phase[q] \in {"new", "loading"} => linked[q] = "none"
            /\ IF phase[q] = "following" THEN conn[q] \in Requests ELSE inbox[q] = <<>>
        BY DEF ForkInv, Arrival
      <4>3. linked[q] = "none" => linked'[q] = "none"
        BY <1>6
      <4> QED
        BY <4>1, <4>2, <4>3
    <3> QED
      BY <3>1, <3>2
  <2> QED
    BY <2>1 DEF Arrival
<1>10. ASSUME NEW d \in Requests, chans'[d].state = "live" PROVE Level(d)'
  <2>1. /\ chans[d].state = "live" /\ chans'[d].closed = chans[d].closed
        /\ chans'[d].last = chans[d].last /\ Level(d)
    BY <1>3, <1>4, <1>10 DEF ForkInv
  <2>2. link'[d] = link[d] /\ Latest(d)' = Latest(d)
    BY <1>6, <1>10, <2>1 DEF Latest
  <2>3. chans'[d].ports \subseteq Requests
    BY <1>4 DEF Streams
  <2>4. chans[d].last = 0 => \A q \in chans'[d].ports : inbox'[q] = <<>>
    BY <1>5, <1>7, <2>1, <2>3 DEF Level
  <2> QED
    BY <1>1, <2>1, <2>2, <2>4 DEF Level
<1>11. \A d \in Requests : Level(d)'
  <2> TAKE d \in Requests
  <2>1. CASE chans'[d].state = "live"
    BY <1>10, <2>1
  <2>2. CASE chans'[d].state # "live"
    BY <2>2 DEF Level
  <2> QED
    BY <2>1, <2>2
<1>12. ASSUME NEW q \in Requests PROVE InStep(q)'
  <2>1. InStep(q) /\ \A d \in Requests : chans'[d].last = chans[d].last
    BY <1>3, <1>4 DEF ForkInv
  <2>2. CASE q = r
    <3>1. Consecutive(<<>>)
      BY DEF Consecutive
    <3> QED
      BY <1>5, <1>7, <2>2, <3>1 DEF InStep
  <2>3. CASE q # r
    BY <1>5, <1>7, <2>1, <2>3 DEF InStep
  <2> QED
    BY <2>2, <2>3
<1> QED
  BY <1>8, <1>9, <1>11, <1>12 DEF ForkInv

(* A pipe that is released leads nowhere any more. *)
LEMMA ReleaseKeeps ==
  ASSUME ForkInv, EvalInv', NEW c \in Requests, Release(c)
  PROVE  ForkInv'
<1> DEFINE e == upstream[c]
           left == Disconnect(evals[e], c)
<1>1. /\ linked[c] = "cancelled"
      /\ linked' = [linked EXCEPT ![c] = "none"]
      /\ evals' = [evals EXCEPT ![e] = left]
      /\ link' = [link EXCEPT ![c] = <<>>]
      /\ UNCHANGED <<sessions, subscriptions, chans, upstream, phase, conn, inbox>>
  BY DEF Release, maps, clients
<1>2. e \in Requests /\ evals[e] \in Streams
  BY <1>1 DEF ForkInv, TypeOK, EvalInv, Registered
<1>3. /\ left \in Streams /\ left.last = evals[e].last /\ left.ports = evals[e].ports \ {c}
      /\ left.state \in {evals[e].state, "dead"}
  BY <1>2, StreamLeft, StreamKeeps
<1> HIDE DEF e, left
<1>4. /\ evals' \in [Requests -> Streams] /\ evals'[e] = left
      /\ \A d \in Requests : d # e => evals'[d] = evals[d]
  BY <1>1, <1>2, <1>3 DEF ForkInv, TypeOK
<1>5. /\ linked' \in [Requests -> {"none", "open", "ended", "cancelled"}] /\ linked'[c] = "none"
      /\ link' \in [Requests -> Seq(Selections)] /\ link'[c] = <<>>
      /\ \A d \in Requests : d # c => linked'[d] = linked[d] /\ link'[d] = link[d]
  BY <1>1 DEF ForkInv, TypeOK
<1>6. \A d, f \in Requests : d \in evals'[f].ports => d \in evals[f].ports /\ d # c
  <2> TAKE d, f \in Requests
  <2>1. CASE f = e
    BY <1>3, <1>4, <2>1
  <2>2. CASE f # e
    BY <1>4, <2>2 DEF ForkInv, TypeOK, e
  <2> QED
    BY <2>1, <2>2
<1>7. TypeOK'
  <2>1. \A d, f \in Requests : d \in evals'[f].ports =>
          linked'[d] \in {"open", "cancelled"} /\ upstream'[d] = f
    BY <1>1, <1>5, <1>6 DEF ForkInv, TypeOK
  <2> QED
    BY <1>1, <1>4, <1>5, <2>1 DEF ForkInv, TypeOK
<1>8. Arrival'
  BY <1>1, <1>5 DEF ForkInv, Arrival
<1>9. ASSUME NEW d \in Requests PROVE Level(d)'
  <2>1. Level(d)
    BY DEF ForkInv
  <2>2. CASE d = c
    <3>1. \A f \in Requests : c \notin evals'[f].ports
      BY <1>6
    <3> QED
      BY <1>1, <1>5, <2>1, <2>2, <3>1 DEF Level, Consecutive
  <2>3. CASE d # c
    <3>1. Latest(d)' = Latest(d)
      BY <1>1, <1>5, <2>3 DEF Latest
    <3>2. \A f \in Requests : d \in evals'[f].ports /\ evals'[f].state = "live" =>
            d \in evals[f].ports /\ evals[f].state = "live" /\ evals'[f].last = evals[f].last
      BY <1>3, <1>4, <1>6
    <3> QED
      BY <1>1, <1>5, <2>1, <2>3, <3>1, <3>2 DEF Level
  <2> QED
    BY <2>2, <2>3
<1>10. \A q \in Requests : InStep(q)'
  BY <1>1 DEF ForkInv, InStep
<1> QED
  BY <1>7, <1>8, <1>9, <1>10 DEF ForkInv

(* A stream that is taken out of its map has ended, so that forgetting its
   last chunk matters to no one. *)
LEMMA UnregisterKeeps ==
  ASSUME ForkInv, EvalInv', NEW c \in Requests, Unregister(c) \/ UnregisterEval(c)
  PROVE  ForkInv'
<1> DEFINE handled(s) == [s EXCEPT !.closed = "handled", !.last = 0]
<1>0. chans \in [Requests -> Streams] /\ evals \in [Requests -> Streams]
  BY DEF ForkInv, TypeOK
<1>1. ASSUME NEW s \in Streams
      PROVE  /\ handled(s) \in Streams /\ handled(s).ports = s.ports
             /\ handled(s).state = s.state /\ handled(s).last = 0
  BY DEF Streams
<1>2. CASE Unregister(c)
  <2>1. /\ chans[c].closed = "resolved"
        /\ chans' = [chans EXCEPT ![c] = handled(chans[c])] /\ sessions' = None
        /\ UNCHANGED <<subscriptions, evals, upstream, link, linked, phase, conn, inbox>>
    BY <1>2 DEF Unregister, pipes, clients
  <2>2. chans[c] \in Streams /\ chans[c].state # "live"
    BY <2>1 DEF ForkInv, TypeOK, Level
  <2>3. /\ chans' \in [Requests -> Streams]
        /\ chans'[c].state # "live" /\ chans'[c].last = 0
        /\ \A d \in Requests : chans'[d].ports = chans[d].ports
        /\ \A d \in Requests : d # c => chans'[d] = chans[d]
    <3> DEFINE h == handled(chans[c])
    <3>1. h \in Streams /\ h.ports = chans[c].ports /\ h.state = chans[c].state /\ h.last = 0
      BY <1>1, <2>2
    <3>2. chans' = [chans EXCEPT ![c] = h]
      BY <2>1
    <3> HIDE DEF h
    <3>3. /\ chans' \in [Requests -> Streams] /\ chans'[c] = h
          /\ \A d \in Requests : d # c => chans'[d] = chans[d]
      BY <1>0, <3>1, <3>2
    <3> QED
      BY <2>2, <3>1, <3>3
  <2>4. TypeOK'
    BY <1>2, <2>1, <2>3 DEF ForkInv, TypeOK, Unregister, pipes, clients
  <2>5. Arrival'
    BY <2>1 DEF ForkInv, Arrival
  <2>6. ASSUME NEW d \in Requests PROVE Level(d)'
    <3>1. CASE d = c
      BY <2>3, <3>1 DEF Level
    <3>2. CASE d # c
      BY <2>1, <2>3, <3>2 DEF ForkInv, Level, Latest
    <3> QED
      BY <3>1, <3>2
  <2>7. \A q \in Requests : InStep(q)'
    BY <2>1, <2>3 DEF ForkInv, InStep
  <2> QED
    BY <2>4, <2>5, <2>6, <2>7 DEF ForkInv
<1>3. CASE UnregisterEval(c)
  <2>1. /\ evals[c].closed = "resolved"
        /\ evals' = [evals EXCEPT ![c] = handled(evals[c])] /\ subscriptions' = None
        /\ UNCHANGED <<sessions, chans, upstream, link, linked, phase, conn, inbox>>
    BY <1>3 DEF UnregisterEval, pipes, clients
  <2>2. evals[c] \in Streams /\ evals[c].state # "live"
    BY <2>1 DEF ForkInv, TypeOK, EvalInv, Registered
  <2>3. /\ evals' \in [Requests -> Streams]
        /\ evals'[c].state # "live"
        /\ \A d \in Requests : evals'[d].ports = evals[d].ports
        /\ \A d \in Requests : d # c => evals'[d] = evals[d]
    <3> DEFINE h == handled(evals[c])
    <3>1. h \in Streams /\ h.ports = evals[c].ports /\ h.state = evals[c].state /\ h.last = 0
      BY <1>1, <2>2
    <3>2. evals' = [evals EXCEPT ![c] = h]
      BY <2>1
    <3> HIDE DEF h
    <3>3. /\ evals' \in [Requests -> Streams] /\ evals'[c] = h
          /\ \A d \in Requests : d # c => evals'[d] = evals[d]
      BY <1>0, <3>1, <3>2
    <3> QED
      BY <2>2, <3>1, <3>3
  <2>4. TypeOK'
    BY <1>3, <2>1, <2>3 DEF ForkInv, TypeOK, UnregisterEval, pipes, clients
  <2>5. Arrival'
    BY <2>1 DEF ForkInv, Arrival
  <2>6. ASSUME NEW d \in Requests PROVE Level(d)'
    BY <2>1, <2>3 DEF ForkInv, Level, Latest
  <2>7. \A q \in Requests : InStep(q)'
    BY <2>1 DEF ForkInv, InStep
  <2> QED
    BY <2>4, <2>5, <2>6, <2>7 DEF ForkInv
<1> QED
  BY <1>2, <1>3

LEMMA ForkStep == ForkInv /\ [Next]_vars => ForkInv'
<1> SUFFICES ASSUME ForkInv, [Next]_vars PROVE ForkInv'
  OBVIOUS
<1>1. EvalInv'
  BY EvalStep DEF ForkInv
<1>2. CASE UNCHANGED vars
  BY <1>1, <1>2 DEF vars, maps, pipes, clients, ForkInv, TypeOK, Arrival, Level, Latest, InStep
<1>3. CASE Next
  <2>1. PICK r \in Requests :
          \/ Join(r) \/ Miss(r) \/ NotFound(r) \/ Load(r) \/ Leave(r)
          \/ Produce(r) \/ SourceEnds(r) \/ Forward(r)
          \/ UnwindEval(r) \/ ChannelEnds(r) \/ Release(r)
          \/ Unregister(r) \/ UnregisterEval(r)
    BY <1>3 DEF Next
  <2>2. CASE SourceEnds(r) \/ UnwindEval(r)
    BY <1>1, <2>2, EndKeeps DEF SourceEnds, UnwindEval
  <2> QED
    BY <1>1, <2>1, <2>2, JoinKeeps, MissKeeps, LoadKeeps, LeaveKeeps, ProduceKeeps,
       ForwardKeeps, ChannelEndsKeeps, ReleaseKeeps, UnregisterKeeps
<1> QED
  BY <1>2, <1>3

(* Streams, queues and pipes keep their types, a request that is in the ports
   of a channel follows it, and a channel in the ports of an evaluation has a
   pipe from it. *)
THEOREM TypeCorrect == Spec => []TypeOK
<1>1. ForkInv => TypeOK
  BY DEF ForkInv
<1> QED
  BY <1>1, ForkInit, ForkStep, PTL DEF Spec

(* For any number of requests that join, leave and load the query in any
   order, each gets the selections of its evaluation without a gap or a
   repetition, and is level with the other forks of its channel. *)
THEOREM ForksLevel == Spec => []ForksInStep
<1>1. ForkInv => ForksInStep
  BY InStepForm DEF ForkInv
<1> QED
  BY <1>1, ForkInit, ForkStep, PTL DEF Spec
=============================================================================
