------------------------- MODULE LocalSession_proofs -------------------------
(***************************************************************************)
(* Proofs about the local session, for any number of subscriptions,        *)
(* writers, scans, values and commits.                                     *)
(***************************************************************************)
EXTENDS LocalSession, TLAPS

(* Only committed transactions are announced. *)
AnnouncedCommitted ==
  /\ \A w \in Writers : pending[w] <= commits
  /\ \A s \in Subscriptions : due[s] <= commits

SessionInv == TypeOK /\ AnnouncedCommitted /\ WokenSeesCommit

(* A completed evaluation is a selection, so it is never taken for Nothing. *)
LEMMA ScannedSelection ==
  ASSUME NEW q \in Seq(Values), Len(q) = Parts
  PROVE  q \in Selections /\ q # Nothing
<1>1. q \in [1 .. Parts -> Values]
  OBVIOUS
<1>2. QED
  BY <1>1, SessionAssumption DEF Selections

LEMMA InitInv == Init => SessionInv
BY SessionAssumption
DEF Init, SessionInv, TypeOK, AnnouncedCommitted, WokenSeesCommit, Phases

LEMMA CommitInv ==
  ASSUME SessionInv, NEW w \in Writers, Commit(w) PROVE SessionInv'
<1> USE SessionAssumption
<1> USE DEF SessionInv, TypeOK, Commit, subVars
<1>1. TypeOK'
  <2>1. /\ commits + 1 \in 0 .. MaxCommits
        /\ commits' = commits + 1
        /\ pending' = [pending EXCEPT ![w] = commits + 1]
    OBVIOUS
  <2>2. pending' \in [Writers -> 0 .. MaxCommits]
    BY <2>1
  <2>3. QED
    BY <2>1, <2>2
<1>2. AnnouncedCommitted'
  <2>1. \A v \in Writers : pending'[v] <= commits'
    <3> TAKE v \in Writers
    <3>1. pending[v] <= commits /\ pending[v] \in Nat /\ commits \in Nat
      BY DEF AnnouncedCommitted
    <3>2. pending'[v] = IF v = w THEN commits + 1 ELSE pending[v]
      OBVIOUS
    <3>3. QED
      BY <3>1, <3>2
  <2>2. \A s \in Subscriptions : due'[s] <= commits'
    BY DEF AnnouncedCommitted
  <2>3. QED
    BY <2>1, <2>2 DEF AnnouncedCommitted
<1>3. WokenSeesCommit'
  BY DEF SessionInv, Commit, TypeOK, WokenSeesCommit, subVars
<1>4. QED
  BY <1>1, <1>2, <1>3 DEF SessionInv

LEMMA AnnounceInv ==
  ASSUME SessionInv, NEW w \in Writers, Announce(w) PROVE SessionInv'
<1> USE SessionAssumption
<1>1. TypeOK'
  BY DEF SessionInv, Announce, TypeOK, Phases, Parked
<1>2. AnnouncedCommitted'
  BY DEF SessionInv, Announce, TypeOK, AnnouncedCommitted, Parked
<1>3. WokenSeesCommit'
  BY DEF SessionInv, Announce, TypeOK, WokenSeesCommit, Parked
<1>4. QED
  BY <1>1, <1>2, <1>3 DEF SessionInv

(* Whatever the pull loop decides to do next is typed. *)
LEMMA LoopTyped ==
  ASSUME TypeOK, NEW s \in Subscriptions, buffer[s] = Nothing,
         Stop(s) \/ Evaluate(s) \/ (Park(s) /\ revision[s] # Nothing),
         cancelled' \in [Subscriptions -> BOOLEAN],
         UNCHANGED <<sourceVars, revision, buffer, delivered, due, readAt>>
  PROVE  TypeOK'
<1> USE SessionAssumption DEF TypeOK, sourceVars
<1>1. phase' \in [Subscriptions -> Phases]
  BY DEF Stop, Evaluate, Park, Phases
<1>2. /\ scanned' \in [Subscriptions -> Seq(Values)]
      /\ \A u \in Subscriptions : Len(scanned'[u]) <= Parts
  <2>1. CASE scanned' = [scanned EXCEPT ![s] = <<>>]
    <3>1. <<>> \in Seq(Values) /\ Len(<<>>) <= Parts
      OBVIOUS
    <3>2. scanned' \in [Subscriptions -> Seq(Values)]
      BY <2>1
    <3>3. ASSUME NEW u \in Subscriptions PROVE Len(scanned'[u]) <= Parts
      <4>1. CASE u = s
        BY <2>1, <3>1, <4>1
      <4>2. CASE u # s
        BY <2>1, <4>2
      <4>3. QED
        BY <4>1, <4>2
    <3>4. QED
      BY <3>2, <3>3
  <2>2. CASE scanned' = scanned
    BY <2>2
  <2>3. QED
    BY <2>1, <2>2 DEF Stop, Evaluate, Park
<1>3. \A u \in Subscriptions : /\ buffer'[u] # Nothing => phase'[u] = "idle"
                               /\ phase'[u] = "parked" => revision'[u] # Nothing
  BY DEF Stop, Evaluate, Park
<1>4. QED
  BY <1>1, <1>2, <1>3

(* The steps of one subscription leave the source and the announcements
   alone. *)
LEMMA SubscriptionTyped ==
  ASSUME TypeOK, NEW s \in Subscriptions, Advance(s) \/ Fail(s) \/ Cancel(s)
  PROVE  TypeOK'
<1> USE SessionAssumption DEF TypeOK, sourceVars, Phases
<1>1. CASE Pull(s)
  BY <1>1, LoopTyped DEF Pull
<1>2. CASE Resume(s)
  BY <1>2, LoopTyped DEF Resume
<1>3. CASE Scan(s)
  <2> DEFINE q == Append(scanned[s], db[Len(scanned[s]) + 1])
  <2>1. /\ scanned[s] \in Seq(Values)
        /\ Len(scanned[s]) \in Nat
        /\ Len(scanned[s]) < Parts
        /\ Len(scanned[s]) + 1 \in 1 .. Parts
    BY <1>3 DEF Scan
  <2>2. db[Len(scanned[s]) + 1] \in Values
    BY <2>1 DEF Selections
  <2>3. q \in Seq(Values) /\ Len(q) = Len(scanned[s]) + 1
    BY <2>1, <2>2
  <2>4. q \in Seq(Values) /\ Len(q) <= Parts
    BY <2>1, <2>3
  <2>5. scanned' = [scanned EXCEPT ![s] = q]
    BY <1>3 DEF Scan
  <2> HIDE DEF q
  <2>6. /\ scanned' \in [Subscriptions -> Seq(Values)]
        /\ \A u \in Subscriptions : Len(scanned'[u]) <= Parts
    BY <2>4, <2>5
  <2>7. readAt' \in [Subscriptions -> 0 .. MaxCommits]
    BY <1>3 DEF Scan
  <2>8. UNCHANGED <<db, commits, pending, phase, revision, buffer, cancelled, delivered, due>>
    BY <1>3 DEF Scan
  <2>9. QED
    BY <2>6, <2>7, <2>8
<1>4. CASE Compare(s)
  <2>1. scanned[s] \in Selections /\ scanned[s] # Nothing
    BY <1>4, ScannedSelection DEF Compare
  <2>2. revision' \in [Subscriptions -> Selections \cup {Nothing}]
    BY <1>4, <2>1 DEF Compare
  <2>3. phase' \in [Subscriptions -> Phases]
    BY <1>4 DEF Compare, Park, Stop
  <2>4. UNCHANGED <<db, commits, pending, scanned, buffer, cancelled,
                    delivered, due, readAt>>
    BY <1>4 DEF Compare, Park, Stop
  <2>5. buffer[s] = Nothing
    BY <1>4 DEF Compare
  <2>6. \A u \in Subscriptions :
          /\ buffer'[u] # Nothing => phase'[u] = "idle"
          /\ phase'[u] = "parked" => revision'[u] # Nothing
    <3> TAKE u \in Subscriptions
    <3>1. CASE u = s
      <4>1. phase'[s] = "parked" => revision'[s] # Nothing
        BY <1>4, <2>1 DEF Compare, Park, Stop
      <4>2. QED
        BY <2>4, <2>5, <3>1, <4>1
    <3>2. CASE u # s
      <4>1. phase'[u] = phase[u] /\ revision'[u] = revision[u]
        BY <1>4, <3>2 DEF Compare, Park, Stop
      <4>2. QED
        BY <2>4, <4>1
    <3>3. QED
      BY <3>1, <3>2
  <2>7. QED
    BY <2>2, <2>3, <2>4, <2>6
<1>5. CASE Enqueue(s)
  BY <1>5 DEF Enqueue
<1>6. CASE Consume(s)
  BY <1>6 DEF Consume
<1>7. CASE Fail(s)
  <2>1. buffer[s] = Nothing
    BY <1>7 DEF Fail
  <2>2. cancelled' \in [Subscriptions -> BOOLEAN]
    BY <1>7 DEF Fail
  <2>3. QED
    BY <1>7, <2>1, <2>2, LoopTyped DEF Fail
<1>8. CASE Cancel(s)
  BY <1>8 DEF Cancel
<1>9. QED
  BY <1>1, <1>2, <1>3, <1>4, <1>5, <1>6, <1>7, <1>8 DEF Advance

LEMMA SubscriptionInv ==
  ASSUME SessionInv, NEW s \in Subscriptions, Advance(s) \/ Fail(s) \/ Cancel(s)
  PROVE  SessionInv'
<1> USE SessionAssumption
<1>1. TypeOK'
  BY SubscriptionTyped DEF SessionInv
<1>2. AnnouncedCommitted'
  BY DEF SessionInv, AnnouncedCommitted, Advance, Pull, Resume, Scan, Compare,
         Enqueue, Consume, Fail, Cancel, sourceVars
<1>3. WokenSeesCommit'
  <2> USE DEF SessionInv, TypeOK, WokenSeesCommit, sourceVars
  <2>1. CASE Scan(s)
    BY <2>1 DEF Scan, AnnouncedCommitted
  <2>2. CASE Pull(s) \/ Resume(s)
    BY <2>2 DEF Pull, Resume, Evaluate, Park, Stop
  <2>3. CASE Compare(s)
    <3>1. scanned[s] # <<>>
      BY <2>3 DEF Compare
    <3>2. readAt[s] >= due[s]
      BY <2>3, <3>1 DEF Compare
    <3>3. QED
      BY <2>3, <3>2 DEF Compare, Park, Stop
  <2>6. CASE Fail(s)
    BY <2>6 DEF Fail, Stop
  <2>4. CASE Enqueue(s) \/ Consume(s) \/ Cancel(s)
    BY <2>4 DEF Enqueue, Consume, Cancel
  <2>5. QED
    BY <2>1, <2>2, <2>3, <2>4, <2>6 DEF Advance
<1>4. QED
  BY <1>1, <1>2, <1>3 DEF SessionInv

LEMMA NextInv == SessionInv /\ [Next]_vars => SessionInv'
<1>1. SessionInv /\ UNCHANGED vars => SessionInv'
  BY DEF SessionInv, TypeOK, AnnouncedCommitted, WokenSeesCommit, vars,
         sourceVars, subVars
<1>2. QED
  BY <1>1, CommitInv, AnnounceInv, SubscriptionInv DEF Next

THEOREM SessionInvariant == Spec => []SessionInv
BY InitInv, NextInv, PTL DEF Spec

(* Every variable of a session keeps its type. *)
THEOREM TypeCorrect == Spec => []TypeOK
<1>1. SessionInv => TypeOK
  BY DEF SessionInv
<1>2. QED
  BY <1>1, SessionInvariant, PTL

(* What wakes a subscription is in the source it then reads. *)
THEOREM WokenCorrect == Spec => []WokenSeesCommit
<1>1. SessionInv => WokenSeesCommit
  BY DEF SessionInv
<1>2. QED
  BY <1>1, SessionInvariant, PTL

(* What the stream was given last is the revision, except between the change
   of the revision and the enqueueing of the selection behind it. *)
DeliveredTracksRevision ==
  \A s \in Subscriptions :
    /\ phase[s] = "ready" => revision[s] # delivered[s]
    /\ phase[s] \notin {"ready", "stopped"} => revision[s] = delivered[s]

LEMMA DeliveredInv ==
  SessionInv /\ DeliveredTracksRevision /\ [Next]_vars => DeliveredTracksRevision'
<1> SUFFICES ASSUME SessionInv, DeliveredTracksRevision, [Next]_vars
             PROVE  DeliveredTracksRevision'
  OBVIOUS
<1> USE DEF SessionInv, TypeOK, DeliveredTracksRevision
<1>1. ASSUME NEW w \in Writers, Commit(w) \/ Announce(w)
      PROVE  DeliveredTracksRevision'
  BY <1>1 DEF Commit, Announce, Parked, subVars
<1>2. ASSUME NEW s \in Subscriptions, Advance(s) \/ Fail(s) \/ Cancel(s)
      PROVE  DeliveredTracksRevision'
  <2>1. CASE Pull(s) \/ Resume(s)
    BY <2>1 DEF Pull, Resume, Evaluate, Park, Stop
  <2>2. CASE Scan(s) \/ Consume(s) \/ Cancel(s)
    BY <2>2 DEF Scan, Consume, Cancel
  <2>3. CASE Fail(s)
    BY <2>3 DEF Fail, Stop
  <2>4. CASE Compare(s)
    BY <2>4 DEF Compare, Park, Stop
  <2>5. CASE Enqueue(s)
    BY <2>5 DEF Enqueue
  <2>6. QED
    BY <1>2, <2>1, <2>2, <2>3, <2>4, <2>5 DEF Advance
<1>3. CASE UNCHANGED vars
  BY <1>3 DEF vars, subVars
<1>4. QED
  BY <1>1, <1>2, <1>3 DEF Next

(* No consumer gets a selection twice in a row, or any after it cancelled. *)
THEOREM NewSelections == Spec => OnlyNewSelections
<1>1. Init => DeliveredTracksRevision
  BY DEF Init, DeliveredTracksRevision
<1>2. SessionInv /\ DeliveredTracksRevision /\ [Next]_vars =>
        [\A s \in Subscriptions :
           buffer[s] = Nothing /\ buffer'[s] # Nothing =>
             ~cancelled[s] /\ buffer'[s] # delivered[s]]_vars
  <2> SUFFICES ASSUME SessionInv, DeliveredTracksRevision, Next,
                      NEW s \in Subscriptions,
                      buffer[s] = Nothing, buffer'[s] # Nothing
               PROVE  ~cancelled[s] /\ buffer'[s] # delivered[s]
    OBVIOUS
  <2> USE DEF SessionInv, TypeOK
  <2>1. Enqueue(s)
    <3>1. ASSUME NEW w \in Writers, Commit(w) \/ Announce(w) PROVE FALSE
      BY <3>1 DEF Commit, Announce, subVars
    <3>2. ASSUME NEW u \in Subscriptions,
                 Pull(u) \/ Resume(u) \/ Scan(u) \/ Compare(u) \/ Fail(u)
          PROVE FALSE
      BY <3>2 DEF Pull, Resume, Scan, Compare, Fail
    <3>3. ASSUME NEW u \in Subscriptions, Consume(u) \/ Cancel(u) PROVE FALSE
      BY <3>3 DEF Consume, Cancel
    <3>4. ASSUME NEW u \in Subscriptions, u # s, Enqueue(u) PROVE FALSE
      BY <3>4 DEF Enqueue
    <3>5. QED
      BY <3>1, <3>2, <3>3, <3>4 DEF Next, Advance
  <2>2. buffer'[s] = IF cancelled[s] THEN Nothing ELSE revision[s]
    BY <2>1 DEF Enqueue
  <2>3. revision[s] # delivered[s]
    BY <2>1 DEF Enqueue, DeliveredTracksRevision
  <2>4. QED
    BY <2>2, <2>3
<1>3. QED
  BY <1>1, <1>2, DeliveredInv, SessionInvariant, PTL DEF Spec, OnlyNewSelections
=============================================================================
