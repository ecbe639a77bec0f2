---------------------------- MODULE SyncLog_proofs ----------------------------
(***************************************************************************)
(* Proofs that no pull skips a byte of the log, that what one gets twice   *)
(* is one frame as a whole, and that frames are decoded and logged once    *)
(* and in the order of their push: for any number of pushes and pulls, any *)
(* length of frames and any crashes.                                       *)
(***************************************************************************)
EXTENDS SyncLog, FiniteSetTheorems, TLAPS

(* The types the argument needs. *)
LogTypes ==
  /\ received \in [Pushes -> Nat]
  /\ decoded \in [Pushes -> Seq(Nat)]
  /\ queue \in Seq(Pushes \X Nat)
  /\ writing \in (Pushes \X Nat) \cup {<<>>}
  /\ appended \in BOOLEAN
  /\ file \in Seq(((Pushes \X Nat) \cup {<<>>}) \X Nat)
  /\ offset \in Nat

PullTypes ==
  /\ pull \in [Pulls -> {"new", "checking", "reading", "connected", "gone"}]
  /\ start \in [Pulls -> Nat] /\ pos \in [Pulls -> Nat]
  /\ got \in [Pulls -> Seq(Nat)]

(* Up to where a pull has passed the log on. *)
Reached(p) == IF got[p] = <<>> THEN start[p] ELSE got[p][Len(got[p])]

(* While it reads the file a pull continues where it stands; once connected it
   has everything up to the offset, which is where the next chunk begins. *)
Continues == \A p \in Pulls :
  /\ pull[p] = "new" => got[p] = <<>>
  /\ pull[p] \in {"checking", "reading"} => Reached(p) = pos[p]
  /\ pull[p] = "connected" => Reached(p) >= offset

LogInv == LogTypes /\ PullTypes /\ Continues /\ NoByteSkipped

-----------------------------------------------------------------------------
LEMMA NumbersType ==
  ASSUME NEW m \in Nat, NEW n \in Nat
  PROVE  /\ Numbers(m, n) \in Seq(Nat)
         /\ n >= m => Len(Numbers(m, n)) = n - m
         /\ \A i \in 1 .. n - m : Numbers(m, n)[i] = m + i
<1>1. CASE n >= m
  BY <1>1 DEF Numbers
<1>2. CASE n < m
  <2>1. 1 .. n - m = 1 .. 0
    BY <1>2
  <2>2. Numbers(m, n) = [i \in 1 .. 0 |-> m + i]
    BY <2>1 DEF Numbers
  <2> QED
    BY <1>2, <2>2
<1> QED
  BY <1>1, <1>2

(* The elements of a sequence made of two. *)
LEMMA Joined ==
  ASSUME NEW s \in Seq(Nat), NEW r \in Seq(Nat)
  PROVE  /\ s \o r \in Seq(Nat)
         /\ Len(s \o r) = Len(s) + Len(r)
         /\ \A i \in 1 .. Len(s) : (s \o r)[i] = s[i]
         /\ \A i \in Len(s) + 1 .. Len(s) + Len(r) : (s \o r)[i] = r[i - Len(s)]
<1>1. s \o r \in Seq(Nat)
  OBVIOUS
<1>2. Len(s \o r) = Len(s) + Len(r)
  OBVIOUS
<1>3. ASSUME NEW i \in 1 .. Len(s)
      PROVE  (s \o r)[i] = s[i]
  OBVIOUS
<1>4. ASSUME NEW i \in Len(s) + 1 .. Len(s) + Len(r)
      PROVE  (s \o r)[i] = r[i - Len(s)]
  OBVIOUS
<1> QED
  BY <1>1, <1>2, <1>3, <1>4

(* t is s and behind it the numbers from m + 1 to n. *)
RunAdded(s, m, n, t) ==
  /\ t \in Seq(Nat) /\ t # <<>> /\ t[Len(t)] = n
  /\ t[1] = IF s = <<>> THEN m + 1 ELSE s[1]
  /\ \A i \in 1 .. Len(t) - 1 :
       \/ i < Len(s) /\ t[i] = s[i] /\ t[i + 1] = s[i + 1]
       \/ i = Len(s) /\ t[i] = s[i] /\ t[i + 1] = m + 1
       \/ t[i + 1] = t[i] + 1

LEMMA Extended ==
  ASSUME NEW s \in Seq(Nat), NEW m \in Nat, NEW n \in Nat, m < n
  PROVE  RunAdded(s, m, n, s \o Numbers(m, n))
<1> DEFINE r == Numbers(m, n)
           t == s \o r
<1>0. n >= m /\ n - m \in Nat \ {0}
  OBVIOUS
<1>1. r \in Seq(Nat) /\ Len(r) = n - m /\ \A i \in 1 .. n - m : r[i] = m + i
  <2>1. /\ Numbers(m, n) \in Seq(Nat)
        /\ n >= m => Len(Numbers(m, n)) = n - m
        /\ \A i \in 1 .. n - m : Numbers(m, n)[i] = m + i
    BY NumbersType, Zenon
  <2> QED
    BY <1>0, <2>1
<1> HIDE DEF r
<1>2. /\ t \in Seq(Nat) /\ Len(t) = Len(s) + (n - m)
      /\ \A i \in 1 .. Len(s) : t[i] = s[i]
      /\ \A i \in Len(s) + 1 .. Len(t) : t[i] = r[i - Len(s)]
  <2>1. r \in Seq(Nat) /\ Len(r) = n - m
    BY <1>1
  <2>2. /\ s \o r \in Seq(Nat)
        /\ Len(s \o r) = Len(s) + Len(r)
        /\ \A i \in 1 .. Len(s) : (s \o r)[i] = s[i]
        /\ \A i \in Len(s) + 1 .. Len(s) + Len(r) : (s \o r)[i] = r[i - Len(s)]
    BY <2>1, Joined, Zenon
  <2>3. Len(t) = Len(s) + (n - m)
    BY <2>1, <2>2
  <2> QED
    BY <2>1, <2>2, <2>3, Zenon
<1> HIDE DEF t
<1>6. \A i \in Len(s) + 1 .. Len(t) : t[i] = r[i - Len(s)]
  BY <1>2
<1>3. t # <<>> /\ t[Len(t)] = n
  <2>1. Len(t) = Len(s) + (n - m) /\ Len(s) \in Nat
    BY <1>2
  <2>2. Len(t) > 0 /\ Len(t) \in Len(s) + 1 .. Len(t) /\ Len(t) - Len(s) = n - m
    BY <1>0, <2>1
  <2>3. \A i \in Len(s) + 1 .. Len(t) : t[i] = r[i - Len(s)]
    BY <1>2
  <2>4. t[Len(t)] = r[n - m]
    BY <2>2, <2>3
  <2>5. n - m \in 1 .. n - m
    BY <1>0
  <2>6. t # <<>>
    BY <2>2
  <2> QED
    BY <1>1, <2>4, <2>5, <2>6
<1>4. t[1] = IF s = <<>> THEN m + 1 ELSE s[1]
  <2>1. CASE s = <<>>
    <3>1. Len(s) = 0 /\ 1 \in 1 .. n - m /\ 1 \in Len(s) + 1 .. Len(t)
      BY <1>0, <1>2, <2>1
    <3> QED
      BY <1>1, <1>2, <2>1, <3>1
  <2>2. CASE s # <<>>
    <3>1. 1 \in 1 .. Len(s)
      BY <2>2
    <3> QED
      BY <1>2, <2>2, <3>1
  <2> QED
    BY <2>1, <2>2
<1>5. ASSUME NEW i \in 1 .. Len(t) - 1
      PROVE  \/ i < Len(s) /\ t[i] = s[i] /\ t[i + 1] = s[i + 1]
             \/ i = Len(s) /\ t[i] = s[i] /\ t[i + 1] = m + 1
             \/ t[i + 1] = t[i] + 1
  <2>0. i \in Nat /\ Len(s) \in Nat /\ Len(t) \in Nat /\ i >= 1 /\ i + 1 <= Len(t)
    BY <1>2
  <2>1. CASE i < Len(s)
    <3>1. i \in 1 .. Len(s) /\ i + 1 \in 1 .. Len(s)
      BY <2>0, <2>1
    <3> QED
      BY <1>2, <2>1, <3>1
  <2>2. CASE i = Len(s)
    <3>1. /\ i \in 1 .. Len(s) /\ i + 1 \in Len(s) + 1 .. Len(t)
          /\ i + 1 - Len(s) = 1 /\ 1 \in 1 .. n - m
      BY <1>0, <2>0, <2>2
    <3>2. t[i] = s[i]
      BY <1>2, <3>1, Zenon
    <3>3. t[i + 1] = r[i + 1 - Len(s)]
      BY <1>6, <3>1
    <3>4. r[1] = m + 1
      BY <1>1, <3>1
    <3> QED
      BY <2>2, <3>1, <3>2, <3>3, <3>4
  <2>3. CASE i > Len(s)
    <3>1. i - Len(s) \in 1 .. n - m /\ i + 1 - Len(s) \in 1 .. n - m
      BY <1>0, <1>2, <2>0, <2>3
    <3>2. i \in Len(s) + 1 .. Len(t) /\ i + 1 \in Len(s) + 1 .. Len(t)
      BY <2>0, <2>3
    <3>3. t[i] = r[i - Len(s)] /\ t[i + 1] = r[i + 1 - Len(s)]
      BY <1>6, <3>2
    <3>4. t[i] = m + (i - Len(s)) /\ t[i + 1] = m + (i + 1 - Len(s))
      BY <1>1, <3>1, <3>3
    <3> QED
      BY <2>0, <3>4
  <2> QED
    BY <2>1, <2>2, <2>3
<1> QED
  <2>1. RunAdded(s, m, n, t)
    BY <1>2, <1>3, <1>4, <1>5, Zenon DEF RunAdded
  <2> QED
    BY <2>1 DEF t, r

-----------------------------------------------------------------------------
LEMMA InitInv == Init => LogInv
<1> SUFFICES ASSUME Init PROVE LogInv
  OBVIOUS
<1>1. <<>> \in Seq(Nat) /\ <<>> \in Seq(Pushes \X Nat)
      /\ <<>> \in Seq(((Pushes \X Nat) \cup {<<>>}) \X Nat)
  OBVIOUS
<1>2. LogTypes
  BY <1>1 DEF Init, LogTypes
<1>3. PullTypes
  BY <1>1 DEF Init, PullTypes
<1>4. Continues /\ NoByteSkipped
  BY DEF Init, Continues, NoByteSkipped, Reached
<1> QED
  BY <1>2, <1>3, <1>4 DEF LogInv

(* Every step keeps the types. *)
LEMMA BytesType ==
  ASSUME NEW f \in (Pushes \X Nat) \cup {<<>>}, NEW n \in Nat
  PROVE  Bytes(f, n) \in Seq(((Pushes \X Nat) \cup {<<>>}) \X Nat)
BY DEF Bytes

LEMMA ReceiveTypes ==
  ASSUME LogTypes, NEW u \in Pushes, NEW n \in 1 .. BodyLen, Receive(u, n)
  PROVE  LogTypes'
<1> DEFINE frames == Partition(received[u], received[u] + n)
<1>0. BodyLen \in Nat
  BY SyncAssumption DEF BodyLen
<1>1. received[u] \in Nat /\ received[u] + n \in Nat
  BY <1>0 DEF LogTypes
<1>2. received[u] \div FrameLen \in Nat /\ (received[u] + n) \div FrameLen \in Nat
  BY <1>1, SyncAssumption
<1>3. Numbers(received[u] \div FrameLen, (received[u] + n) \div FrameLen) \in Seq(Nat)
  BY <1>2, NumbersType
<1>4. frames \in Seq(Nat)
  <2>1. CASE (received[u] + n) % FrameLen \in 1 .. HeadLen - 1
    <3>1. frames = <<>>
      BY <2>1, Zenon DEF Partition
    <3>2. <<>> \in Seq(Nat)
      OBVIOUS
    <3> QED
      BY <3>1, <3>2, Zenon
  <2>2. CASE (received[u] + n) % FrameLen \notin 1 .. HeadLen - 1
    <3>1. frames = Numbers(received[u] \div FrameLen, (received[u] + n) \div FrameLen)
      BY <2>2, Zenon DEF Partition
    <3> QED
      BY <1>3, <3>1
  <2> QED
    BY <2>1, <2>2
<1> HIDE DEF frames
<1>5. /\ received' = [received EXCEPT ![u] = received[u] + n]
      /\ decoded' = [decoded EXCEPT ![u] = decoded[u] \o frames]
      /\ UNCHANGED <<queue, writing, appended, file, offset>>
  BY DEF Receive, frames, logVars
<1>6. decoded[u] \o frames \in Seq(Nat)
  BY <1>4 DEF LogTypes
<1> QED
  BY <1>1, <1>5, <1>6 DEF LogTypes

LEMMA TransactTypes ==
  ASSUME LogTypes, NEW u \in Pushes, Transact(u)
  PROVE  LogTypes'
<1>1. decoded[u] \in Seq(Nat) /\ decoded[u] # <<>>
  BY DEF LogTypes, Transact
<1>2. Head(decoded[u]) \in Nat /\ Tail(decoded[u]) \in Seq(Nat)
  BY <1>1
<1>3. Append(queue, <<u, Head(decoded[u])>>) \in Seq(Pushes \X Nat)
  BY <1>2 DEF LogTypes
<1> QED
  BY <1>2, <1>3 DEF LogTypes, Transact

LEMMA PollTypes ==
  ASSUME LogTypes, Take \/ AppendBytes \/ Written
  PROVE  LogTypes'
<1>1. CASE Take
  <2>1. Head(queue) \in Pushes \X Nat /\ Tail(queue) \in Seq(Pushes \X Nat)
    BY <1>1 DEF LogTypes, Take
  <2> QED
    BY <1>1, <2>1 DEF LogTypes, Take, pushVars
<1>2. CASE AppendBytes
  <2>1. Bytes(writing, FrameLen) \in Seq(((Pushes \X Nat) \cup {<<>>}) \X Nat)
    BY BytesType, SyncAssumption DEF LogTypes
  <2> HIDE DEF Bytes
  <2> QED
    BY <1>2, <2>1 DEF LogTypes, AppendBytes, pushVars
<1>3. CASE Written
  <2>1. /\ writing' = <<>> /\ appended' = FALSE /\ offset' = offset + FrameLen
        /\ UNCHANGED <<received, decoded, queue, file>>
    BY <1>3 DEF Written, pushVars
  <2>2. offset' \in Nat
    BY <2>1, SyncAssumption DEF LogTypes
  <2> QED
    BY <2>1, <2>2 DEF LogTypes
<1> QED
  BY <1>1, <1>2, <1>3

LEMMA CrashTypes ==
  ASSUME LogTypes, Crash
  PROVE  LogTypes'
<1>1. PICK n \in 0 .. FrameLen - 1 : file' = file \o Bytes(writing, n)
  BY DEF Crash
<1>2. Bytes(writing, n) \in Seq(((Pushes \X Nat) \cup {<<>>}) \X Nat)
  <2>1. n \in Nat
    BY SyncAssumption
  <2> QED
    BY <2>1, BytesType DEF LogTypes
<1>3. file' \in Seq(((Pushes \X Nat) \cup {<<>>}) \X Nat)
  BY <1>1, <1>2 DEF LogTypes
<1>4. offset' \in Nat
  BY <1>3 DEF Crash
<1>5. received' \in [Pushes -> Nat]
  BY SyncAssumption DEF Crash, LogTypes, BodyLen
<1>6. /\ queue' = <<>> /\ writing' = <<>> /\ appended' = FALSE
      /\ decoded' = [u \in Pushes |-> <<>>]
  BY DEF Crash
<1>7. <<>> \in Seq(Nat) /\ <<>> \in Seq(Pushes \X Nat)
  OBVIOUS
<1>8. decoded' \in [Pushes -> Seq(Nat)]
  BY <1>6, <1>7
<1> QED
  BY <1>3, <1>4, <1>5, <1>6, <1>7, <1>8 DEF LogTypes

-----------------------------------------------------------------------------
(* What a pull has passed on stays without a gap when it gets a run of bytes
   that begins right behind what it reached, or before. *)
LEMMA GrowsWithoutGap ==
  ASSUME PullTypes, NEW p \in Pulls, NEW m \in Nat, NEW n \in Nat, m < n,
         m <= Reached(p), NoByteSkipped,
         got'[p] = got[p] \o Numbers(m, n), start'[p] = start[p]
  PROVE  /\ got'[p] \in Seq(Nat) /\ got'[p] # <<>> /\ Reached(p)' = n
         /\ got'[p][1] <= start'[p] + 1
         /\ \A i \in 1 .. Len(got'[p]) - 1 : got'[p][i + 1] <= got'[p][i] + 1
<1> DEFINE s == got[p]
           t == s \o Numbers(m, n)
<1>1. s \in Seq(Nat) /\ start[p] \in Nat
  BY DEF PullTypes
<1>2. /\ s # <<>> => s[1] <= start[p] + 1
      /\ \A i \in 1 .. Len(s) - 1 : s[i + 1] <= s[i] + 1
  BY DEF NoByteSkipped
<1>3. m <= IF s = <<>> THEN start[p] ELSE s[Len(s)]
  BY DEF Reached
<1>4. /\ t \in Seq(Nat) /\ t # <<>> /\ t[Len(t)] = n
      /\ t[1] = IF s = <<>> THEN m + 1 ELSE s[1]
      /\ \A i \in 1 .. Len(t) - 1 :
           \/ i < Len(s) /\ t[i] = s[i] /\ t[i + 1] = s[i + 1]
           \/ i = Len(s) /\ t[i] = s[i] /\ t[i + 1] = m + 1
           \/ t[i + 1] = t[i] + 1
  <2>1. RunAdded(s, m, n, t)
    BY <1>1, Extended
  <2> HIDE DEF s, t
  <2> QED
    BY <2>1, Zenon DEF RunAdded
<1> HIDE DEF s, t
<1>5. got'[p] = t
  BY DEF s, t
<1>6. t[1] <= start[p] + 1
  BY <1>1, <1>2, <1>3, <1>4
<1>7. \A i \in 1 .. Len(t) - 1 : t[i + 1] <= t[i] + 1
  <2> TAKE i \in 1 .. Len(t) - 1
  <2>1. CASE i < Len(s) /\ t[i] = s[i] /\ t[i + 1] = s[i + 1]
    <3>1. i \in 1 .. Len(s) - 1
      BY <1>1, <1>4, <2>1
    <3> QED
      BY <1>2, <2>1, <3>1
  <2>2. CASE i = Len(s) /\ t[i] = s[i] /\ t[i + 1] = m + 1
    <3>1. s # <<>>
      BY <1>1, <2>2
    <3>2. m <= s[Len(s)] /\ s[Len(s)] \in Nat
      BY <1>1, <1>3, <3>1
    <3> QED
      BY <2>2, <3>2
  <2>3. CASE t[i + 1] = t[i] + 1
    <3>1. t[i] \in Nat
      BY <1>4
    <3> QED
      BY <2>3, <3>1
  <2> QED
    BY <1>4, <2>1, <2>2, <2>3
<1>8. Reached(p)' = n
  BY <1>4, <1>5 DEF Reached
<1> QED
  BY <1>4, <1>5, <1>6, <1>7, <1>8

(* Nothing that a pull has or where it stands changes. *)
LEMMA Untouched ==
  ASSUME PullTypes, Continues, NoByteSkipped, UNCHANGED <<pullVars, offset>>
  PROVE  PullTypes' /\ Continues' /\ NoByteSkipped'
BY DEF PullTypes, Continues, NoByteSkipped, Reached, pullVars

LEMMA WrittenPulls ==
  ASSUME LogTypes, PullTypes, Continues, NoByteSkipped, Written
  PROVE  PullTypes' /\ Continues' /\ NoByteSkipped'
<1>0. /\ offset \in Nat /\ offset' = offset + FrameLen /\ offset' \in Nat /\ offset < offset'
      /\ UNCHANGED <<pull, start, pos>>
  BY SyncAssumption DEF LogTypes, Written
<1>1. ASSUME NEW p \in Pulls, pull[p] = "connected"
      PROVE  /\ got'[p] \in Seq(Nat) /\ got'[p] # <<>> /\ Reached(p)' = offset'
             /\ got'[p][1] <= start'[p] + 1
             /\ \A i \in 1 .. Len(got'[p]) - 1 : got'[p][i + 1] <= got'[p][i] + 1
  <2>1. got'[p] = got[p] \o Numbers(offset, offset')
    BY <1>0, <1>1 DEF Written, Connected
  <2>2. offset <= Reached(p)
    <3>1. Reached(p) \in Nat /\ Reached(p) >= offset
      BY <1>1 DEF Continues, PullTypes, Reached
    <3> QED
      BY <1>0, <3>1
  <2>3. start'[p] = start[p]
    BY <1>0
  <2> QED
    BY <1>0, <2>1, <2>2, <2>3, GrowsWithoutGap
<1>2. ASSUME NEW p \in Pulls, pull[p] # "connected"
      PROVE  got'[p] = got[p] /\ Reached(p)' = Reached(p)
  BY <1>0, <1>2 DEF Written, Connected, Reached
<1>3. PullTypes'
  <2>1. got' = [p \in Pulls |-> got'[p]]
    BY DEF Written
  <2>2. \A p \in Pulls : got'[p] \in Seq(Nat)
    BY <1>1, <1>2 DEF PullTypes
  <2> QED
    BY <1>0, <2>1, <2>2 DEF PullTypes
<1>4. Continues'
  <2> SUFFICES ASSUME NEW p \in Pulls
               PROVE  /\ pull'[p] = "new" => got'[p] = <<>>
                      /\ pull'[p] \in {"checking", "reading"} => Reached(p)' = pos'[p]
                      /\ pull'[p] = "connected" => Reached(p)' >= offset'
    BY DEF Continues
  <2>1. CASE pull[p] = "connected"
    BY <1>0, <1>1, <2>1
  <2>2. CASE pull[p] # "connected"
    BY <1>0, <1>2, <2>2 DEF Continues
  <2> QED
    BY <2>1, <2>2
<1>5. NoByteSkipped'
  <2> SUFFICES ASSUME NEW p \in Pulls
               PROVE  /\ got'[p] # <<>> => got'[p][1] <= start'[p] + 1
                      /\ \A i \in 1 .. Len(got'[p]) - 1 : got'[p][i + 1] <= got'[p][i] + 1
    BY DEF NoByteSkipped
  <2>1. CASE pull[p] = "connected"
    BY <1>1, <2>1
  <2>2. CASE pull[p] # "connected"
    BY <1>0, <1>2, <2>2 DEF NoByteSkipped
  <2> QED
    BY <2>1, <2>2
<1> QED
  BY <1>3, <1>4, <1>5

LEMMA ReadPulls ==
  ASSUME LogTypes, PullTypes, Continues, NoByteSkipped, NEW p \in Pulls, Read(p)
  PROVE  PullTypes' /\ Continues' /\ NoByteSkipped'
<1>1. PICK n \in pos[p] + 1 .. Len(file) :
        /\ got' = [got EXCEPT ![p] = got[p] \o Numbers(pos[p], n)]
        /\ pos' = [pos EXCEPT ![p] = n]
  BY DEF Read
<1>2. /\ pos[p] \in Nat /\ n \in Nat /\ pos[p] < n
      /\ pull[p] = "reading" /\ UNCHANGED <<pull, start, offset>>
  BY <1>1 DEF PullTypes, LogTypes, Read, logVars
<1>3. pos[p] <= Reached(p)
  BY <1>2 DEF Continues
<1>4. got'[p] = got[p] \o Numbers(pos[p], n) /\ start'[p] = start[p] /\ pos'[p] = n
  BY <1>1, <1>2 DEF PullTypes
<1>5. /\ got'[p] \in Seq(Nat) /\ got'[p] # <<>> /\ Reached(p)' = n
      /\ got'[p][1] <= start'[p] + 1
      /\ \A i \in 1 .. Len(got'[p]) - 1 : got'[p][i + 1] <= got'[p][i] + 1
  BY <1>2, <1>3, <1>4, GrowsWithoutGap
<1>6. \A q \in Pulls : q # p => got'[q] = got[q] /\ pos'[q] = pos[q] /\ Reached(q)' = Reached(q)
  BY <1>1, <1>2 DEF PullTypes, Reached
<1>7. PullTypes'
  <2>1. got[p] \o Numbers(pos[p], n) \in Seq(Nat)
    BY <1>4, <1>5
  <2> QED
    BY <1>1, <1>2, <2>1 DEF PullTypes
<1>8. Continues'
  BY <1>2, <1>4, <1>5, <1>6 DEF Continues
<1>9. NoByteSkipped'
  BY <1>2, <1>5, <1>6 DEF NoByteSkipped
<1> QED
  BY <1>7, <1>8, <1>9

LEMMA PullPulls ==
  ASSUME LogTypes, PullTypes, Continues, NoByteSkipped, NEW p \in Pulls,
         Pull(p) \/ Check(p) \/ EndOfFile(p) \/ Leave(p)
  PROVE  PullTypes' /\ Continues' /\ NoByteSkipped'
<1>1. CASE Pull(p)
  <2>1. PICK n \in 0 .. Len(file) : /\ start' = [start EXCEPT ![p] = n]
                                    /\ pos' = [pos EXCEPT ![p] = n]
    BY <1>1 DEF Pull
  <2>2. n \in Nat /\ pull[p] = "new" /\ got[p] = <<>>
    BY <1>1, <2>1 DEF LogTypes, Pull, Continues
  <2>3. pull' = [pull EXCEPT ![p] = "checking"] /\ got' = got /\ offset' = offset
    BY <1>1 DEF Pull, logVars
  <2>4. Reached(p)' = n
    BY <2>1, <2>2, <2>3 DEF Reached, PullTypes
  <2>5. \A q \in Pulls : q # p => /\ start'[q] = start[q] /\ pos'[q] = pos[q]
                                  /\ pull'[q] = pull[q] /\ Reached(q)' = Reached(q)
    BY <2>1, <2>3 DEF Reached, PullTypes
  <2>6. PullTypes'
    BY <2>1, <2>2, <2>3 DEF PullTypes
  <2>7. Continues'
    BY <2>1, <2>2, <2>3, <2>4, <2>5 DEF Continues, PullTypes
  <2>8. NoByteSkipped'
    BY <2>2, <2>3, <2>5 DEF NoByteSkipped
  <2> QED
    BY <2>6, <2>7, <2>8
<1>2. CASE Check(p) \/ EndOfFile(p) \/ Leave(p)
  <2>1. UNCHANGED <<start, pos, got, offset>>
    BY <1>2 DEF Check, EndOfFile, Leave, logVars
  <2>2. \A q \in Pulls : Reached(q)' = Reached(q) /\ Reached(q) \in Nat
    BY <2>1 DEF Reached, PullTypes
  <2>3. NoByteSkipped'
    BY <2>1 DEF NoByteSkipped
  <2>4. PullTypes'
    BY <1>2, <2>1 DEF PullTypes, Check, EndOfFile, Leave
  <2>5. \A q \in Pulls : q # p => pull'[q] = pull[q]
    BY <1>2 DEF Check, EndOfFile, Leave, PullTypes
  <2>6. /\ pull'[p] # "new"
        /\ pull'[p] \in {"checking", "reading"} => Reached(p) = pos[p]
        /\ pull'[p] = "connected" => Reached(p) >= offset
    BY <1>2, <2>2 DEF Check, EndOfFile, Leave, PullTypes, LogTypes, Continues
  <2>7. Continues'
    BY <2>1, <2>2, <2>5, <2>6 DEF Continues
  <2> QED
    BY <2>3, <2>4, <2>7
<1> QED
  BY <1>1, <1>2

LEMMA CrashPulls ==
  ASSUME PullTypes, Continues, NoByteSkipped, Crash
  PROVE  PullTypes' /\ Continues' /\ NoByteSkipped'
<1>1. UNCHANGED <<start, pos, got>>
  BY DEF Crash
<1>2. pull' = [p \in Pulls |-> IF pull[p] = "new" THEN "new" ELSE "gone"]
  BY DEF Crash
<1> QED
  BY <1>1, <1>2 DEF PullTypes, Continues, NoByteSkipped, Reached

-----------------------------------------------------------------------------
LEMMA StepInv == LogInv /\ [Next]_vars => LogInv'
<1> SUFFICES ASSUME LogTypes, PullTypes, Continues, NoByteSkipped, [Next]_vars
             PROVE  LogTypes' /\ PullTypes' /\ Continues' /\ NoByteSkipped'
  BY DEF LogInv
<1>1. CASE UNCHANGED vars
  <2>1. LogTypes'
    BY <1>1 DEF vars, pushVars, logVars, LogTypes
  <2>2. UNCHANGED <<pullVars, offset>>
    BY <1>1 DEF vars, logVars
  <2> QED
    BY <2>1, <2>2, Untouched
<1>2. ASSUME NEW u \in Pushes, Transact(u) \/ \E n \in 1 .. BodyLen : Receive(u, n)
      PROVE  LogTypes' /\ PullTypes' /\ Continues' /\ NoByteSkipped'
  <2>1. LogTypes'
    BY <1>2, TransactTypes, ReceiveTypes
  <2>2. UNCHANGED <<pullVars, offset>>
    BY <1>2 DEF Transact, Receive, logVars
  <2> QED
    BY <2>1, <2>2, Untouched
<1>3. CASE Take \/ AppendBytes
  <2>1. UNCHANGED <<pullVars, offset>>
    BY <1>3 DEF Take, AppendBytes
  <2> QED
    BY <1>3, <2>1, PollTypes, Untouched
<1>4. CASE Written
  BY <1>4, PollTypes, WrittenPulls
<1>5. CASE Crash
  BY <1>5, CrashTypes, CrashPulls
<1>6. ASSUME NEW p \in Pulls, Pull(p) \/ Check(p) \/ Read(p) \/ EndOfFile(p) \/ Leave(p)
      PROVE  LogTypes' /\ PullTypes' /\ Continues' /\ NoByteSkipped'
  <2>1. LogTypes'
    BY <1>6 DEF Pull, Check, Read, EndOfFile, Leave, pushVars, logVars, LogTypes
  <2> QED
    BY <1>6, <2>1, ReadPulls, PullPulls
<1> QED
  BY <1>1, <1>2, <1>3, <1>4, <1>5, <1>6 DEF Next

(* No pull ever skips a byte of the log, whatever is pushed, however the file
   is read and wherever the process crashes. *)
THEOREM NothingSkipped == Spec => []NoByteSkipped
<1>1. LogInv => NoByteSkipped
  BY DEF LogInv
<1> QED
  BY <1>1, InitInv, StepInv, PTL DEF Spec

-----------------------------------------------------------------------------
(* What a pull gets twice. *)

(* The breaks in a run of positions; Jumps(p) are those of got[p]. *)
JumpsOf(s) == {i \in 1 .. Len(s) - 1 : s[i + 1] # s[i] + 1}

(* What OnlyWholeFramesRepeat says of one pull. *)
WholeRepeat(p) ==
  /\ \A i, j \in JumpsOf(got[p]) : i = j
  /\ \A i \in JumpsOf(got[p]) :
       LET last == file[got[p][i]]
           next == file[got[p][i + 1]]
       IN last[1] = next[1] /\ last[2] = FrameLen /\ next[2] = 1

(* The offset is the end of the file, or where the frame begins whose write has
   not returned. *)
FramePlace ==
  /\ offset = Len(file) - (IF appended THEN FrameLen ELSE 0)
  /\ appended => writing # <<>> /\ \A i \in 1 .. FrameLen : file[offset + i] = <<writing, i>>

(* A pull breaks off only once it is connected.  When it has read past the
   offset it stands at the end of the file, behind the frame being written,
   and has not broken off so far. *)
Reading(p) ==
  /\ got[p] \in Seq(1 .. Len(file))
  /\ pull[p] \in {"new", "checking", "reading"} => JumpsOf(got[p]) = {} /\ pos[p] <= Len(file)
  /\ pull[p] = "checking" /\ got[p] # <<>> => pos[p] <= offset \/ pos[p] = Len(file)
  /\ pull[p] = "connected" /\ got[p] # <<>> /\ Reached(p) # offset =>
       JumpsOf(got[p]) = {} /\ appended /\ Reached(p) = Len(file)

RepeatInv == LogInv /\ FramePlace /\ \A p \in Pulls : Reading(p) /\ WholeRepeat(p)

(* A log is only added to. *)
FileGrows ==
  /\ Len(file) \in Nat /\ Len(file') \in Nat /\ Len(file) <= Len(file')
  /\ \A i \in 1 .. Len(file) : file'[i] = file[i]

-----------------------------------------------------------------------------
FileBytes == ((Pushes \X Nat) \cup {<<>>}) \X Nat

(* g is f and behind it the first n bytes of w. *)
BytesAdded(f, w, n, g) ==
  /\ g \in Seq(FileBytes) /\ Len(f) \in Nat /\ Len(g) = Len(f) + n
  /\ \A i \in 1 .. Len(f) : g[i] = f[i]
  /\ \A i \in 1 .. n : g[Len(f) + i] = <<w, i>>

LEMMA AddedTo ==
  ASSUME NEW f \in Seq(FileBytes), NEW w \in (Pushes \X Nat) \cup {<<>>}, NEW n \in Nat
  PROVE  BytesAdded(f, w, n, f \o Bytes(w, n))
<1> DEFINE b == Bytes(w, n)
<1>1. b \in Seq(FileBytes) /\ Len(b) = n /\ \A i \in 1 .. n : b[i] = <<w, i>>
  BY DEF Bytes, FileBytes
<1> HIDE DEF b
<1>2. /\ f \o b \in Seq(FileBytes) /\ Len(f) \in Nat /\ Len(f \o b) = Len(f) + n
  BY <1>1
<1>3. ASSUME NEW i \in 1 .. Len(f) PROVE (f \o b)[i] = f[i]
  BY <1>1
<1>4. ASSUME NEW i \in 1 .. n PROVE (f \o b)[Len(f) + i] = <<w, i>>
  <2>1. Len(f) + i \in Len(f) + 1 .. Len(f) + Len(b)
    BY <1>1, <1>2
  <2>2. (f \o b)[Len(f) + i] = b[Len(f) + i - Len(f)]
    BY <1>1, <1>2, <2>1
  <2>3. Len(f) + i - Len(f) = i
    BY <1>2
  <2> QED
    BY <1>1, <2>2, <2>3
<1> QED
  <2>1. BytesAdded(f, w, n, f \o b)
    BY <1>2, <1>3, <1>4, Zenon DEF BytesAdded
  <2> QED
    BY <2>1 DEF b

(* What a run at the end of a sequence does to its breaks. *)
BreaksAdded(s, m, top, t) ==
  /\ t \in Seq(1 .. top)
  /\ \A i \in JumpsOf(t) : i \in JumpsOf(s) \/ (i = Len(s) /\ s # <<>> /\ s[Len(s)] # m)

LEMMA JumpsGrow ==
  ASSUME NEW s \in Seq(Nat), NEW m \in Nat, NEW n \in Nat, m < n, NEW top \in Nat, n <= top,
         s \in Seq(1 .. top)
  PROVE  BreaksAdded(s, m, top, s \o Numbers(m, n))
<1> DEFINE r == Numbers(m, n)
           t == s \o r
<1>0. n >= m /\ n - m \in Nat \ {0} /\ \A i \in 1 .. Len(s) : s[i] \in 1 .. top
  OBVIOUS
<1>1. r \in Seq(Nat) /\ Len(r) = n - m /\ \A i \in 1 .. n - m : r[i] = m + i
  <2>1. /\ Numbers(m, n) \in Seq(Nat)
        /\ n >= m => Len(Numbers(m, n)) = n - m
        /\ \A i \in 1 .. n - m : Numbers(m, n)[i] = m + i
    BY NumbersType, Zenon
  <2> QED
    BY <1>0, <2>1
<1>2. \A i \in 1 .. Len(t) - 1 :
        \/ i < Len(s) /\ t[i] = s[i] /\ t[i + 1] = s[i + 1]
        \/ i = Len(s) /\ t[i] = s[i] /\ t[i + 1] = m + 1
        \/ t[i + 1] = t[i] + 1
  <2>1. RunAdded(s, m, n, t)
    BY Extended
  <2> QED
    BY <2>1, Zenon DEF RunAdded
<1> HIDE DEF r
<1>3. /\ t \in Seq(Nat) /\ Len(t) = Len(s) + (n - m) /\ Len(s) \in Nat
      /\ \A i \in 1 .. Len(s) : t[i] = s[i]
      /\ \A i \in Len(s) + 1 .. Len(s) + Len(r) : t[i] = r[i - Len(s)]
  <2>1. r \in Seq(Nat) /\ Len(r) = n - m /\ Len(s) \in Nat
    BY <1>1
  <2>2. /\ s \o r \in Seq(Nat)
        /\ Len(s \o r) = Len(s) + Len(r)
        /\ \A i \in 1 .. Len(s) : (s \o r)[i] = s[i]
        /\ \A i \in Len(s) + 1 .. Len(s) + Len(r) : (s \o r)[i] = r[i - Len(s)]
    BY <2>1, Joined, Zenon
  <2>3. Len(t) = Len(s) + (n - m)
    BY <2>1, <2>2
  <2> QED
    BY <2>1, <2>2, <2>3, Zenon
<1> HIDE DEF t
<1>4. ASSUME NEW i \in 1 .. Len(t) PROVE t[i] \in 1 .. top
  <2>1. CASE i <= Len(s)
    <3>1. i \in 1 .. Len(s)
      BY <1>3, <2>1
    <3> QED
      BY <1>0, <1>3, <3>1
  <2>2. CASE i > Len(s)
    <3>1. i - Len(s) \in 1 .. n - m /\ i \in Len(s) + 1 .. Len(s) + Len(r)
      BY <1>1, <1>3, <2>2
    <3>2. t[i] = m + (i - Len(s))
      BY <1>1, <1>3, <3>1
    <3>3. i \in Int /\ Len(s) \in Nat
      BY <1>3
    <3> QED
      BY <1>0, <3>1, <3>2, <3>3
  <2> QED
    BY <1>3, <2>1, <2>2
<1>5. t \in Seq(1 .. top)
  <2>2. t \in Seq(Nat)
    BY <1>3
  <2>1. t = [i \in 1 .. Len(t) |-> t[i]] /\ Len(t) \in Nat
    BY <2>2
  <2> QED
    BY <1>4, <2>1
<1>6. \A i \in JumpsOf(t) : i \in JumpsOf(s) \/ (i = Len(s) /\ s # <<>> /\ s[Len(s)] # m)
  <2> TAKE i \in JumpsOf(t)
  <2>1. i \in 1 .. Len(t) - 1 /\ t[i + 1] # t[i] + 1
    BY DEF JumpsOf
  <2>2. CASE i < Len(s) /\ t[i] = s[i] /\ t[i + 1] = s[i + 1]
    <3>1. i \in 1 .. Len(s) - 1
      BY <1>3, <2>1, <2>2
    <3> QED
      BY <2>1, <2>2, <3>1 DEF JumpsOf
  <2>3. CASE i = Len(s) /\ t[i] = s[i] /\ t[i + 1] = m + 1
    <3>2. Len(s) \in Nat \ {0}
      BY <1>3, <2>1, <2>3
    <3>3. s # <<>> /\ s \in Seq(Nat)
      BY <1>0, <3>2
    <3>1. s # <<>> /\ s[Len(s)] \in Nat
      BY <3>2, <3>3
    <3> QED
      BY <2>1, <2>3, <3>1
  <2> QED
    BY <1>2, <2>1, <2>2, <2>3
<1> QED
  <2>1. BreaksAdded(s, m, top, t)
    BY <1>5, <1>6 DEF BreaksAdded
  <2> QED
    BY <2>1 DEF t, r

-----------------------------------------------------------------------------
LEMMA AppendFile ==
  ASSUME LogTypes, FramePlace, AppendBytes
  PROVE  /\ FramePlace' /\ FileGrows /\ ~appended /\ offset' = offset
         /\ file' \in Seq(FileBytes) /\ Len(file') = Len(file) + FrameLen
         /\ \A i \in 1 .. FrameLen : file'[Len(file) + i] = <<writing, i>>
<1>1. /\ writing # <<>> /\ ~appended /\ appended' = TRUE
      /\ file' = file \o Bytes(writing, FrameLen)
      /\ UNCHANGED <<writing, offset>>
  BY DEF AppendBytes
<1>2. file \in Seq(FileBytes) /\ writing \in (Pushes \X Nat) \cup {<<>>} /\ FrameLen \in Nat
  BY SyncAssumption DEF LogTypes, FileBytes
<1>3. /\ file' \in Seq(FileBytes) /\ Len(file) \in Nat /\ Len(file') = Len(file) + FrameLen
      /\ \A i \in 1 .. Len(file) : file'[i] = file[i]
      /\ \A i \in 1 .. FrameLen : file'[Len(file) + i] = <<writing, i>>
  <2>1. BytesAdded(file, writing, FrameLen, file \o Bytes(writing, FrameLen))
    BY <1>2, AddedTo
  <2>2. BytesAdded(file, writing, FrameLen, file')
    BY <1>1, <2>1
  <2> QED
    BY <2>2 DEF BytesAdded
<1>4. offset = Len(file)
  BY <1>1, <1>3 DEF FramePlace
<1>5. FramePlace'
  <2>1. offset' = Len(file') - FrameLen
    BY <1>1, <1>2, <1>3, <1>4
  <2>2. \A i \in 1 .. FrameLen : file'[offset' + i] = <<writing', i>>
    BY <1>1, <1>3, <1>4
  <2> QED
    BY <1>1, <2>1, <2>2 DEF FramePlace
<1>6. FileGrows
  BY <1>2, <1>3 DEF FileGrows
<1> QED
  BY <1>1, <1>3, <1>5, <1>6

LEMMA CrashFile ==
  ASSUME LogTypes, FramePlace, Crash
  PROVE  /\ FramePlace' /\ FileGrows
         /\ \E n \in 0 .. FrameLen - 1 :
              /\ n > 0 => writing # <<>> /\ ~appended
              /\ file' \in Seq(FileBytes) /\ Len(file') = Len(file) + n
              /\ \A i \in 1 .. n : file'[Len(file) + i] = <<writing, i>>
<1>1. PICK n \in 0 .. FrameLen - 1 :
        /\ n > 0 => writing # <<>> /\ ~appended
        /\ file' = file \o Bytes(writing, n)
  BY DEF Crash
<1>2. /\ file \in Seq(FileBytes) /\ writing \in (Pushes \X Nat) \cup {<<>>} /\ n \in Nat
  BY SyncAssumption DEF LogTypes, FileBytes
<1>3. /\ file' \in Seq(FileBytes) /\ Len(file) \in Nat /\ Len(file') = Len(file) + n
      /\ \A i \in 1 .. Len(file) : file'[i] = file[i]
      /\ \A i \in 1 .. n : file'[Len(file) + i] = <<writing, i>>
  <2>1. BytesAdded(file, writing, n, file \o Bytes(writing, n))
    BY <1>2, AddedTo
  <2>2. BytesAdded(file, writing, n, file')
    BY <1>1, <2>1
  <2> QED
    BY <2>2 DEF BytesAdded
<1>4. FramePlace'
  <2>1. appended' = FALSE /\ offset' = Len(file')
    BY DEF Crash
  <2>2. Len(file') \in Nat
    BY <1>2, <1>3
  <2> QED
    BY <2>1, <2>2 DEF FramePlace
<1>5. FileGrows
  BY <1>2, <1>3 DEF FileGrows
<1> QED
  BY <1>1, <1>3, <1>4, <1>5

LEMMA WrittenFile ==
  ASSUME LogTypes, FramePlace, Written
  PROVE  /\ FramePlace' /\ FileGrows /\ file' = file /\ appended
         /\ offset' = Len(file) /\ offset' = offset + FrameLen /\ ~appended'
         /\ file[offset'][1] = writing /\ file[offset'][2] = FrameLen
         /\ file[offset + 1][1] = writing /\ file[offset + 1][2] = 1
<1>1. /\ appended /\ appended' = FALSE /\ offset' = offset + FrameLen /\ file' = file
      /\ Len(file) \in Nat /\ offset \in Nat
  BY DEF Written, LogTypes
<1>2. offset = Len(file) - FrameLen /\ 1 \in 1 .. FrameLen /\ FrameLen \in 1 .. FrameLen
  BY <1>1, SyncAssumption DEF FramePlace
<1>3. file[offset + FrameLen] = <<writing, FrameLen>> /\ file[offset + 1] = <<writing, 1>>
  BY <1>1, <1>2 DEF FramePlace
<1>4. offset' = Len(file)
  BY <1>1, <1>2, SyncAssumption
<1>5. FramePlace'
  BY <1>1, <1>4 DEF FramePlace
<1> QED
  BY <1>1, <1>3, <1>4, <1>5 DEF FileGrows

LEMMA SameFile ==
  ASSUME LogTypes, UNCHANGED <<file, offset, appended>>, UNCHANGED writing \/ Take, FramePlace
  PROVE  FramePlace' /\ FileGrows
<1>1. FileGrows
  BY DEF LogTypes, FileGrows
<1>2. appended => writing' = writing
  BY DEF Take, FramePlace
<1> QED
  BY <1>1, <1>2 DEF FramePlace

-----------------------------------------------------------------------------
(* What a pull has got stays well formed while the log is added to. *)
LEMMA StillWhole ==
  ASSUME NEW p \in Pulls, WholeRepeat(p), got[p] \in Seq(1 .. Len(file)),
         FileGrows, got'[p] = got[p]
  PROVE  WholeRepeat(p)' /\ got'[p] \in Seq(1 .. Len(file'))
<1> DEFINE g == got[p]
           all == 1 .. Len(file)
<1>0. g \in Seq(all)
  OBVIOUS
<1> HIDE DEF g, all
<1>1. /\ Len(g) \in Nat /\ \A i \in 1 .. Len(g) : g[i] \in all
      /\ g = [i \in 1 .. Len(g) |-> g[i]]
  BY <1>0
<1>2. \A i \in 1 .. Len(g) : g[i] \in 1 .. Len(file') /\ file'[g[i]] = file[g[i]]
  BY <1>1 DEF FileGrows, all
<1>3. g \in Seq(1 .. Len(file'))
  BY <1>1, <1>2
<1>4. \A i \in JumpsOf(g) : i \in 1 .. Len(g) /\ i + 1 \in 1 .. Len(g)
  BY <1>1 DEF JumpsOf
<1> QED
  <2> DEFINE J == JumpsOf(got[p])
  <2>1. JumpsOf(got[p])' = J
    BY DEF JumpsOf
  <2>2. \A i \in J : /\ file'[got[p][i]] = file[got[p][i]]
                     /\ file'[got[p][i + 1]] = file[got[p][i + 1]]
    BY <1>2, <1>4 DEF g
  <2>3. /\ \A i, j \in J : i = j
        /\ \A i \in J : /\ file[got[p][i]][1] = file[got[p][i + 1]][1]
                        /\ file[got[p][i]][2] = FrameLen /\ file[got[p][i + 1]][2] = 1
    BY DEF WholeRepeat
  <2>4. got[p] \in Seq(1 .. Len(file'))
    BY <1>3 DEF g
  <2> HIDE DEF J
  <2>5. ASSUME NEW i \in J
        PROVE  /\ file'[got[p][i]][1] = file'[got[p][i + 1]][1]
               /\ file'[got[p][i]][2] = FrameLen /\ file'[got[p][i + 1]][2] = 1
    <3>1. /\ file'[got[p][i]] = file[got[p][i]]
          /\ file'[got[p][i + 1]] = file[got[p][i + 1]]
      BY <2>2
    <3>2. /\ file[got[p][i]][1] = file[got[p][i + 1]][1]
          /\ file[got[p][i]][2] = FrameLen /\ file[got[p][i + 1]][2] = 1
      BY <2>3
    <3> QED
      BY <3>1, <3>2
  <2>6. WholeRepeat(p)'
    BY <2>1, <2>3, <2>5 DEF WholeRepeat
  <2> QED
    BY <2>4, <2>6

(* A pull that does not move, while the log is as it was or gets the next
   frame. *)
LEMMA StaysInPlace ==
  ASSUME LogTypes, PullTypes, FramePlace, NEW p \in Pulls, Reading(p), WholeRepeat(p),
         FileGrows, got'[p] = got[p], pull'[p] = pull[p], pos'[p] = pos[p],
         offset' = offset, ~appended \/ (appended' /\ file' = file)
  PROVE  Reading(p)' /\ WholeRepeat(p)'
<1>1. WholeRepeat(p)' /\ got'[p] \in Seq(1 .. Len(file'))
  BY StillWhole DEF Reading
<1>2. pos[p] \in Nat /\ Len(file) \in Nat /\ Len(file') \in Nat /\ Len(file) <= Len(file')
  BY DEF PullTypes, FileGrows
<1>3. ~appended => offset = Len(file)
  BY <1>2 DEF FramePlace
<1>4. got[p] # <<>> => (Reached(p) = got[p][Len(got[p])] /\ Reached(p)' = Reached(p))
  BY DEF Reached
<1>5. pull[p] \in {"new", "checking", "reading"} => JumpsOf(got[p]) = {} /\ pos[p] <= Len(file')
  BY <1>2 DEF Reading
<1>6. pull[p] = "checking" /\ got[p] # <<>> => pos[p] <= offset' \/ pos[p] = Len(file')
  BY <1>2, <1>3 DEF Reading
<1>7. pull[p] = "connected" /\ got[p] # <<>> /\ Reached(p) # offset =>
        JumpsOf(got[p]) = {} /\ appended' /\ Reached(p) = Len(file')
  BY <1>3 DEF Reading
<1> QED
  BY <1>1, <1>4, <1>5, <1>6, <1>7 DEF Reading

(* A pull that gets a run of bytes breaks off where the run begins, unless it
   stood there. *)
LEMMA GrowsWhole ==
  ASSUME LogTypes, PullTypes, NEW p \in Pulls, WholeRepeat(p), Reading(p), file' = file,
         NEW m \in Nat, NEW n \in Nat, m < n, n <= Len(file),
         got'[p] = got[p] \o Numbers(m, n),
         \/ got[p] = <<>> \/ Reached(p) = m
         \/ /\ JumpsOf(got[p]) = {}
            /\ file[Reached(p)][1] = file[m + 1][1]
            /\ file[Reached(p)][2] = FrameLen /\ file[m + 1][2] = 1
  PROVE  /\ WholeRepeat(p)' /\ got'[p] \in Seq(1 .. Len(file')) /\ got'[p] # <<>>
         /\ Reached(p)' = n
         /\ JumpsOf(got[p]) = {} /\ (got[p] = <<>> \/ Reached(p) = m) => JumpsOf(got'[p]) = {}
<1> DEFINE s == got[p]
           t == s \o Numbers(m, n)
           top == Len(file)
<1>1. s \in Seq(Nat) /\ s \in Seq(1 .. top) /\ top \in Nat
  BY DEF PullTypes, Reading, LogTypes
<1> HIDE DEF s, top
<1>2. /\ t \in Seq(1 .. top)
      /\ \A i \in JumpsOf(t) : i \in JumpsOf(s) \/ (i = Len(s) /\ s # <<>> /\ s[Len(s)] # m)
  <2>1. n <= top
    BY DEF top
  <2>2. BreaksAdded(s, m, top, t)
    BY <1>1, <2>1, JumpsGrow
  <2> QED
    BY <2>2, Zenon DEF BreaksAdded
<1>3. /\ t \in Seq(Nat) /\ t # <<>> /\ t[Len(t)] = n
      /\ t[1] = IF s = <<>> THEN m + 1 ELSE s[1]
      /\ \A i \in 1 .. Len(t) - 1 :
           \/ i < Len(s) /\ t[i] = s[i] /\ t[i + 1] = s[i + 1]
           \/ i = Len(s) /\ t[i] = s[i] /\ t[i + 1] = m + 1
           \/ t[i + 1] = t[i] + 1
  <2>1. s \in Seq(Nat)
    BY <1>1
  <2>2. RunAdded(s, m, n, t)
    BY <2>1, Extended
  <2> HIDE DEF t
  <2> QED
    BY <2>2, Zenon DEF RunAdded
<1> HIDE DEF t
<1>4. got'[p] = t /\ got[p] = s
  BY DEF s, t
<1>5. Reached(p)' = n
  BY <1>3, <1>4 DEF Reached
<1>6. s # <<>> => Reached(p) = s[Len(s)]
  BY <1>4 DEF Reached
<1>7. \A i \in JumpsOf(t) :
        \/ i \in JumpsOf(s) /\ t[i] = s[i] /\ t[i + 1] = s[i + 1]
        \/ i = Len(s) /\ s # <<>> /\ s[Len(s)] # m /\ t[i] = s[i] /\ t[i + 1] = m + 1
  <2> TAKE i \in JumpsOf(t)
  <2>1. i \in 1 .. Len(t) - 1 /\ t[i + 1] # t[i] + 1
    BY DEF JumpsOf
  <2>2. i \in JumpsOf(s) => i < Len(s)
    BY <1>1 DEF JumpsOf
  <2> QED
    BY <1>2, <1>3, <2>1, <2>2
<1>8. WholeRepeat(p)'
  <2>1. CASE s = <<>> \/ Reached(p) = m
    <3>1. \A i \in JumpsOf(t) : i \in JumpsOf(s) /\ t[i] = s[i] /\ t[i + 1] = s[i + 1]
      BY <1>6, <1>7, <2>1
    <3> QED
      BY <1>4, <3>1 DEF WholeRepeat
  <2>2. CASE /\ JumpsOf(s) = {}
             /\ file[Reached(p)][1] = file[m + 1][1]
             /\ file[Reached(p)][2] = FrameLen /\ file[m + 1][2] = 1
    <3>1. \A i \in JumpsOf(t) : i = Len(s) /\ t[i] = Reached(p) /\ t[i + 1] = m + 1
      BY <1>6, <1>7, <2>2
    <3> QED
      BY <1>4, <2>2, <3>1 DEF WholeRepeat
  <2> QED
    BY <1>4, <2>1, <2>2
<1>9. JumpsOf(s) = {} /\ (s = <<>> \/ Reached(p) = m) => JumpsOf(t) = {}
  BY <1>2, <1>6
<1> QED
  BY <1>2, <1>3, <1>4, <1>5, <1>8, <1>9 DEF top

LEMMA WrittenRepeats ==
  ASSUME LogTypes, PullTypes, FramePlace, NEW p \in Pulls, Reading(p), WholeRepeat(p), Written
  PROVE  Reading(p)' /\ WholeRepeat(p)'
<1>1. /\ file' = file /\ appended /\ offset' = Len(file) /\ offset' = offset + FrameLen
      /\ file[offset'][1] = writing /\ file[offset'][2] = FrameLen
      /\ file[offset + 1][1] = writing /\ file[offset + 1][2] = 1
      /\ FileGrows
  BY WrittenFile
<1>2. /\ offset \in Nat /\ offset' \in Nat /\ offset < offset' /\ offset' <= Len(file)
      /\ UNCHANGED <<pull, pos>>
  BY <1>1, SyncAssumption DEF LogTypes, Written
<1>3. CASE pull[p] = "connected"
  <2>1. got'[p] = got[p] \o Numbers(offset, offset')
    BY <1>1, <1>3 DEF Written, Connected
  <2>2. \/ got[p] = <<>> \/ Reached(p) = offset
        \/ JumpsOf(got[p]) = {} /\ Reached(p) = offset'
    BY <1>1, <1>3 DEF Reading
  <2>3. /\ WholeRepeat(p)' /\ got'[p] \in Seq(1 .. Len(file')) /\ Reached(p)' = offset'
    BY <1>1, <1>2, <2>1, <2>2, GrowsWhole
  <2> QED
    BY <1>2, <1>3, <2>3 DEF Reading
<1>4. CASE pull[p] # "connected"
  <2>1. got'[p] = got[p]
    BY <1>4 DEF Written, Connected
  <2>2. WholeRepeat(p)' /\ got'[p] \in Seq(1 .. Len(file'))
    BY <1>1, <2>1, StillWhole DEF Reading
  <2>3. pos[p] \in Nat
    BY DEF PullTypes
  <2>4. pull[p] = "checking" /\ got[p] # <<>> => pos[p] <= offset' \/ pos[p] = Len(file')
    BY <1>1, <1>2, <2>3 DEF Reading
  <2> QED
    BY <1>1, <1>2, <1>4, <2>1, <2>2, <2>4 DEF Reading
<1> QED
  BY <1>3, <1>4

LEMMA ReadRepeats ==
  ASSUME LogTypes, PullTypes, Continues, FramePlace,
         NEW p \in Pulls, Reading(p), WholeRepeat(p), Read(p)
  PROVE  Reading(p)' /\ WholeRepeat(p)'
<1>1. PICK n \in pos[p] + 1 .. Len(file) :
        /\ got' = [got EXCEPT ![p] = got[p] \o Numbers(pos[p], n)]
        /\ pos' = [pos EXCEPT ![p] = n]
  BY DEF Read
<1>2. /\ pos[p] \in Nat /\ n \in Nat /\ pos[p] < n /\ n <= Len(file)
      /\ pull[p] = "reading" /\ UNCHANGED <<pull, file>>
  BY <1>1 DEF PullTypes, LogTypes, Read, logVars
<1>3. got'[p] = got[p] \o Numbers(pos[p], n) /\ pos'[p] = n
  BY <1>1 DEF PullTypes
<1>4. Reached(p) = pos[p] /\ JumpsOf(got[p]) = {}
  BY <1>2 DEF Continues, Reading
<1>5. WholeRepeat(p)' /\ got'[p] \in Seq(1 .. Len(file')) /\ JumpsOf(got'[p]) = {}
  BY <1>2, <1>3, <1>4, GrowsWhole
<1> QED
  BY <1>2, <1>3, <1>5 DEF Reading

LEMMA MoveRepeats ==
  ASSUME LogTypes, PullTypes, Continues, FramePlace,
         NEW p \in Pulls, Reading(p), WholeRepeat(p),
         Pull(p) \/ Check(p) \/ EndOfFile(p) \/ Leave(p)
  PROVE  Reading(p)' /\ WholeRepeat(p)'
<1>1. UNCHANGED <<file, offset, appended, got>>
  BY DEF Pull, Check, EndOfFile, Leave, logVars
<1>2. WholeRepeat(p)' /\ got'[p] \in Seq(1 .. Len(file'))
  BY <1>1 DEF Reading, WholeRepeat
<1>3. CASE Pull(p)
  <2>1. got[p] = <<>> /\ pull'[p] = "checking"
    BY <1>3 DEF Pull, PullTypes, Continues
  <2>2. PICK n \in 0 .. Len(file) : pos'[p] = n
    BY <1>3 DEF Pull, PullTypes
  <2>3. JumpsOf(<<>>) = {}
    BY DEF JumpsOf
  <2> QED
    BY <1>1, <1>2, <2>1, <2>2, <2>3 DEF Reading
<1>4. CASE Check(p)
  <2>1. /\ pull[p] = "checking" /\ UNCHANGED pos
        /\ pull'[p] = IF pos[p] < offset THEN "reading" ELSE "connected"
    BY <1>4 DEF Check, PullTypes
  <2>2. Reached(p)' = pos[p] /\ pos[p] \in Nat /\ offset \in Nat
    BY <1>1, <1>4, <2>1 DEF Reached, Continues, PullTypes, LogTypes, Check
  <2>3. JumpsOf(got[p]) = {} /\ pos[p] <= Len(file)
    BY <2>1 DEF Reading
  <2>4. CASE pos[p] < offset
    BY <1>1, <1>2, <2>1, <2>3, <2>4 DEF Reading
  <2>5. CASE pos[p] >= offset /\ got[p] # <<>>
    <3>1. pos[p] # offset => pos[p] = Len(file)
      BY <2>1, <2>2, <2>5 DEF Reading
    <3>2. ~appended => Len(file) = offset
      BY DEF FramePlace, LogTypes
    <3> QED
      BY <1>1, <1>2, <2>1, <2>2, <2>3, <2>5, <3>1, <3>2 DEF Reading, LogTypes
  <2>6. CASE got[p] = <<>>
    BY <1>1, <1>2, <2>1, <2>2, <2>3, <2>6 DEF Reading
  <2> QED
    BY <2>2, <2>4, <2>5, <2>6
<1>5. CASE EndOfFile(p)
  <2>1. /\ pull[p] = "reading" /\ pos[p] >= Len(file) /\ pull'[p] = "checking" /\ pos' = pos
    BY <1>5 DEF EndOfFile, PullTypes
  <2>2. pos[p] = Len(file)
    BY <2>1 DEF Reading, PullTypes, LogTypes
  <2> QED
    BY <1>1, <1>2, <2>1, <2>2 DEF Reading
<1>6. CASE Leave(p)
  <2>1. pull'[p] = "gone"
    BY <1>6 DEF Leave, PullTypes
  <2> QED
    BY <1>2, <2>1 DEF Reading
<1> QED
  BY <1>3, <1>4, <1>5, <1>6

LEMMA CrashRepeats ==
  ASSUME LogTypes, PullTypes, FramePlace, NEW p \in Pulls, Reading(p), WholeRepeat(p), Crash
  PROVE  Reading(p)' /\ WholeRepeat(p)'
<1>1. FileGrows
  BY CrashFile
<1>2. /\ UNCHANGED <<pos, got>>
      /\ pull'[p] = IF pull[p] = "new" THEN "new" ELSE "gone"
  BY DEF Crash
<1>3. WholeRepeat(p)' /\ got'[p] \in Seq(1 .. Len(file'))
  BY <1>1, <1>2, StillWhole DEF Reading
<1>4. pull[p] = "new" => JumpsOf(got[p]) = {} /\ pos[p] <= Len(file')
  BY <1>1 DEF FileGrows, Reading, PullTypes
<1> QED
  BY <1>2, <1>3, <1>4 DEF Reading

-----------------------------------------------------------------------------
LEMMA RepeatInit == Init => RepeatInv
<1> SUFFICES ASSUME Init PROVE RepeatInv
  OBVIOUS
<1>1. FramePlace
  BY DEF Init, FramePlace
<1>2. JumpsOf(<<>>) = {}
  BY DEF JumpsOf
<1>3. <<>> \in Seq(1 .. Len(file))
  OBVIOUS
<1>4. \A p \in Pulls : Reading(p) /\ WholeRepeat(p)
  BY <1>2, <1>3 DEF Init, Reading, WholeRepeat
<1> QED
  BY <1>1, <1>4, InitInv DEF RepeatInv

LEMMA RepeatStep == RepeatInv /\ [Next]_vars => RepeatInv'
<1> SUFFICES ASSUME RepeatInv, [Next]_vars PROVE RepeatInv'
  OBVIOUS
<1>0. LogTypes /\ PullTypes /\ Continues /\ FramePlace
  BY DEF RepeatInv, LogInv
<1>1. LogInv'
  BY StepInv DEF RepeatInv
<1> SUFFICES FramePlace' /\ \A p \in Pulls : Reading(p)' /\ WholeRepeat(p)'
  BY <1>1 DEF RepeatInv
<1>2. \A p \in Pulls : Reading(p) /\ WholeRepeat(p)
  BY DEF RepeatInv
<1>3. CASE UNCHANGED vars \/ Take \/ (\E u \in Pushes : Transact(u) \/ \E n \in 1 .. BodyLen : Receive(u, n))
  <2>1. /\ UNCHANGED <<file, offset, appended, pull, pos, got>>
        /\ UNCHANGED writing \/ Take
    BY <1>3 DEF vars, pushVars, logVars, pullVars, Take, Transact, Receive
  <2>2. FramePlace' /\ FileGrows
    BY <1>0, <2>1, SameFile
  <2> QED
    BY <1>0, <1>2, <2>1, <2>2, StaysInPlace
<1>4. CASE AppendBytes
  <2>1. UNCHANGED <<pull, pos, got>>
    BY <1>4 DEF AppendBytes, pullVars
  <2> QED
    BY <1>0, <1>2, <1>4, <2>1, AppendFile, StaysInPlace
<1>5. CASE Written
  BY <1>0, <1>2, <1>5, WrittenFile, WrittenRepeats
<1>6. CASE Crash
  BY <1>0, <1>2, <1>6, CrashFile, CrashRepeats
<1>7. ASSUME NEW p \in Pulls, Pull(p) \/ Check(p) \/ Read(p) \/ EndOfFile(p) \/ Leave(p)
      PROVE  FramePlace' /\ \A q \in Pulls : Reading(q)' /\ WholeRepeat(q)'
  <2>1. UNCHANGED <<file, offset, appended, writing>>
    BY <1>7 DEF Pull, Check, Read, EndOfFile, Leave, logVars
  <2>2. FramePlace' /\ FileGrows
    BY <1>0, <2>1, SameFile
  <2>3. Reading(p)' /\ WholeRepeat(p)'
    BY <1>0, <1>2, <1>7, ReadRepeats, MoveRepeats
  <2>4. ASSUME NEW q \in Pulls, q # p PROVE Reading(q)' /\ WholeRepeat(q)'
    <3>1. got'[q] = got[q] /\ pull'[q] = pull[q] /\ pos'[q] = pos[q]
      BY <1>0, <1>7, <2>4 DEF Pull, Check, Read, EndOfFile, Leave, PullTypes
    <3> QED
      BY <1>0, <1>2, <2>1, <2>2, <3>1, StaysInPlace
  <2> QED
    BY <2>2, <2>3, <2>4
<1> QED
  BY <1>3, <1>4, <1>5, <1>6, <1>7 DEF Next

(* No pull gets a byte twice but for one frame, which it gets twice as a whole,
   one time right after the other: for any pushes, pulls, lengths of frames and
   crashes. *)
THEOREM WholeFramesRepeat == Spec => []OnlyWholeFramesRepeat
<1>1. RepeatInv => OnlyWholeFramesRepeat
  BY DEF RepeatInv, WholeRepeat, OnlyWholeFramesRepeat, Jumps, JumpsOf
<1> QED
  BY <1>1, RepeatInit, RepeatStep, PTL DEF Spec

-----------------------------------------------------------------------------
(* The order of the frames, from a push into the file. *)

LEMMA ElementOf ==
  ASSUME NEW S, NEW s \in Seq(S), NEW i \in 1 .. Len(s) PROVE s[i] \in S
OBVIOUS

Ordered(s) == \A i, j \in 1 .. Len(s) : i < j => s[i] < s[j]

LEMMA Larger ==
  ASSUME NEW d \in Nat, NEW e \in Nat, NEW n \in Nat, d * n < e * n
  PROVE  d < e
<1> SUFFICES ASSUME d >= e PROVE FALSE
  OBVIOUS
<1>1. PICK f \in Nat : d = e + f
  <2>1. d - e \in Nat /\ d = e + (d - e)
    OBVIOUS
  <2> QED
    BY <2>1
<1>2. d * n = e * n + f * n
  BY <1>1
<1>3. f * n \in Nat /\ e * n \in Nat
  OBVIOUS
<1> QED
  BY <1>2, <1>3

LEMMA NotLarger ==
  ASSUME NEW d \in Nat, NEW e \in Nat, NEW n \in Nat, d <= e
  PROVE  d * n <= e * n
<1>1. PICK f \in Nat : e = d + f
  <2>1. e - d \in Nat /\ e = d + (e - d)
    OBVIOUS
  <2> QED
    BY <2>1
<1>2. e * n = d * n + f * n
  BY <1>1
<1>3. f * n \in Nat /\ d * n \in Nat
  OBVIOUS
<1> QED
  BY <1>2, <1>3

LEMMA Quotient ==
  ASSUME NEW r \in Nat, NEW n \in Nat \ {0}
  PROVE  /\ r \div n \in Nat
         /\ (r \div n) * n <= r /\ r < (r \div n + 1) * n
OBVIOUS

(* The frames that a chunk completes are those that end in it, in order. *)
LEMMA PartitionIs ==
  ASSUME NEW r \in Nat, NEW n \in Nat, r <= n
  PROVE  LET t == Partition(r, n) IN
         /\ t \in Seq(Nat) /\ Ordered(t)
         /\ \A i \in 1 .. Len(t) : r < t[i] * FrameLen /\ t[i] * FrameLen <= n /\ t[i] > 0
<1> DEFINE t == Partition(r, n)
           h == r \div FrameLen
           w == n \div FrameLen
<1>0. FrameLen \in Nat \ {0}
  BY SyncAssumption
<1>1. h \in Nat /\ w \in Nat /\ r < (h + 1) * FrameLen /\ w * FrameLen <= n
  BY <1>0, Quotient
<1>2. t = <<>> \/ t = Numbers(h, w)
  BY DEF Partition
<1> HIDE DEF h, w
<1>3. CASE t = <<>>
  BY <1>3 DEF Ordered
<1>4. CASE t = Numbers(h, w)
  <2>1. t \in Seq(Nat) /\ \A i \in 1 .. Len(t) : t[i] = h + i /\ h + i \in Nat /\ h + i <= w
    <3> HIDE DEF t
    <3>1. t \in Seq(Nat)
      BY <1>1, <1>4, NumbersType
    <3>2. CASE w >= h
      <4>1. Len(t) = w - h
        BY <1>1, <1>4, <3>2, NumbersType
      <4>2. \A i \in 1 .. w - h : t[i] = h + i
        BY <1>1, <1>4, NumbersType
      <4> QED
        BY <1>1, <3>1, <4>1, <4>2
    <3>3. CASE w < h
      <4>1. 1 .. w - h = 1 .. 0
        BY <1>1, <3>3
      <4>2. t = [i \in 1 .. 0 |-> h + i]
        BY <1>4, <4>1 DEF Numbers
      <4>3. Len(t) = 0
        BY <4>2
      <4> QED
        BY <3>1, <4>3
    <3> QED
      BY <1>1, <3>2, <3>3
  <2> HIDE DEF t
  <2>2. Ordered(t)
    BY <1>1, <2>1 DEF Ordered
  <2>3. ASSUME NEW i \in 1 .. Len(t)
        PROVE  r < t[i] * FrameLen /\ t[i] * FrameLen <= n /\ t[i] > 0
    <3>1. (h + 1) * FrameLen <= (h + i) * FrameLen
      BY <1>0, <1>1, <2>1, NotLarger
    <3>2. (h + i) * FrameLen <= w * FrameLen
      BY <1>0, <1>1, <2>1, NotLarger
    <3>3. (h + 1) * FrameLen \in Nat /\ (h + i) * FrameLen \in Nat /\ w * FrameLen \in Nat
      BY <1>0, <1>1, <2>1
    <3> QED
      BY <1>1, <2>1, <3>1, <3>2, <3>3
  <2> QED
    BY <2>1, <2>2, <2>3 DEF t
<1> QED
  BY <1>2, <1>3, <1>4

-----------------------------------------------------------------------------
(* The frames that were decoded, and how they relate to what arrived: they are
   increasing and end within it. *)
Decoding ==
  /\ emitted \in [Pushes -> Seq(Nat)]
  /\ \A u \in Pushes :
       /\ Ordered(emitted[u])
       /\ \A i \in 1 .. Len(emitted[u]) :
            emitted[u][i] > 0 /\ emitted[u][i] * FrameLen <= received[u]
       /\ received[u] <= BodyLen

Counts ==
  /\ crashes \in Nat
  /\ \A i \in 1 .. Len(file) : file[i][2] \in 1 .. FrameLen

InOrderOf(u) == \A k, l \in Nat :
  \A i \in Places(u, k) : \A j \in Places(u, l) : i < j => k < l

InOrder == \A u \in Pushes : InOrderOf(u)

(* What is on the way was decoded, whatever was decoded before something on the
   way is on the way, and all is if nothing crashed, or if the push is still
   being received. *)
KeptOf(u) ==
  /\ \A k \in Nat : OnTheWay(u, k) => \E i \in 1 .. Len(emitted[u]) : emitted[u][i] = k
  /\ \A i, j \in 1 .. Len(emitted[u]) :
       i < j /\ OnTheWay(u, emitted[u][j]) => OnTheWay(u, emitted[u][i])
  /\ crashes = 0 \/ received[u] < BodyLen =>
       \A i \in 1 .. Len(emitted[u]) : OnTheWay(u, emitted[u][i])

Kept == \A u \in Pushes : KeptOf(u)

OrderInv ==
  /\ LogInv /\ FramePlace /\ Decoding /\ Counts /\ InOrder /\ Kept
  /\ Cardinality(Torn) <= crashes

(* The four stages of the way. *)
Filed(u, k, i) == i \in 1 .. Len(file) /\ file[i] = <<<<u, k>>, 1>>
BeingWritten(u, k, i) == writing = <<u, k>> /\ ~appended /\ i = Len(file) + 1
Queued(u, k, i) ==
  i - (Len(file) + 1) \in 1 .. Len(queue) /\ queue[i - (Len(file) + 1)] = <<u, k>>
Decoded(u, k, i) ==
  LET j == i - (Len(file) + 1 + Len(queue)) IN j \in 1 .. Len(decoded[u]) /\ decoded[u][j] = k

Stages(u, k, i) ==
  Filed(u, k, i) \/ BeingWritten(u, k, i) \/ Queued(u, k, i) \/ Decoded(u, k, i)

PlacesKnown == LogTypes =>
  \A u \in Pushes : \A k \in Nat :
    /\ \A i \in Places(u, k) : i \in Nat /\ Stages(u, k, i)
    /\ \A i \in Nat : Stages(u, k, i) => i \in Places(u, k)

LEMMA PlacesAre == PlacesKnown
<1> SUFFICES ASSUME LogTypes, NEW u \in Pushes, NEW k \in Nat
             PROVE  /\ \A i \in Places(u, k) : i \in Nat /\ Stages(u, k, i)
                    /\ \A i \in Nat : Stages(u, k, i) => i \in Places(u, k)
  BY DEF PlacesKnown
<1> DEFINE a == Len(file) + 1
           b == Len(file) + 1 + Len(queue)
           queued == {j \in 1 .. Len(queue) : queue[j] = <<u, k>>}
           held == {j \in 1 .. Len(decoded[u]) : decoded[u][j] = k}
<1>1. Len(file) \in Nat /\ Len(queue) \in Nat /\ Len(decoded[u]) \in Nat
  BY DEF LogTypes
<1>2. Places(u, k) =
        {i \in 1 .. Len(file) : file[i] = <<<<u, k>>, 1>>}
        \cup (IF writing = <<u, k>> /\ ~appended THEN {a} ELSE {})
        \cup {a + i : i \in queued} \cup {b + i : i \in held}
  BY DEF Places
<1>3. ASSUME NEW i \in Places(u, k) PROVE i \in Nat /\ Stages(u, k, i)
  <2>1. CASE i \in 1 .. Len(file) /\ file[i] = <<<<u, k>>, 1>>
    BY <1>1, <2>1 DEF Stages, Filed
  <2>2. CASE writing = <<u, k>> /\ ~appended /\ i = a
    BY <1>1, <2>2 DEF Stages, BeingWritten
  <2>3. CASE \E j \in queued : i = a + j
    <3>1. PICK j \in 1 .. Len(queue) : i = a + j /\ queue[j] = <<u, k>>
      BY <2>3
    <3>2. i - (Len(file) + 1) = j /\ i \in Nat
      BY <1>1, <3>1
    <3> QED
      BY <3>1, <3>2 DEF Stages, Queued
  <2>4. CASE \E j \in held : i = b + j
    <3>1. PICK j \in 1 .. Len(decoded[u]) : i = b + j /\ decoded[u][j] = k
      BY <2>4
    <3>2. i - (Len(file) + 1 + Len(queue)) = j /\ i \in Nat
      BY <1>1, <3>1
    <3> QED
      BY <3>1, <3>2 DEF Stages, Decoded
  <2> HIDE DEF a, b, queued, held
  <2> QED
    BY <1>2, <2>1, <2>2, <2>3, <2>4
<1>4. ASSUME NEW i \in Nat, Stages(u, k, i) PROVE i \in Places(u, k)
  <2>1. CASE Filed(u, k, i)
    BY <1>2, <2>1 DEF Filed
  <2>2. CASE BeingWritten(u, k, i)
    BY <1>2, <2>2 DEF BeingWritten
  <2>3. CASE Queued(u, k, i)
    <3>1. i - a \in queued /\ i = a + (i - a)
      BY <1>1, <2>3 DEF Queued
    <3> HIDE DEF a, queued
    <3> QED
      BY <1>2, <3>1
  <2>4. CASE Decoded(u, k, i)
    <3>1. i - b \in held /\ i = b + (i - b)
      BY <1>1, <2>4 DEF Decoded
    <3> HIDE DEF b, held
    <3> QED
      BY <1>2, <3>1
  <2> QED
    BY <1>4, <2>1, <2>2, <2>3, <2>4 DEF Stages
<1> QED
  BY <1>3, <1>4

LEMMA PlacesAreThen == PlacesKnown'
BY PlacesAre, PTL

(* Where a frame stood before a step, in an order that the step keeps. *)
Stood(u, was) ==
  /\ \A k \in Nat : \A i \in Places(u, k)' : was[i] \in Places(u, k)
  /\ \A k, l \in Nat : \A i \in Places(u, k)' : \A j \in Places(u, l)' :
       i < j => was[i] < was[j]
  /\ \A k \in Nat : OnTheWay(u, k) => OnTheWay(u, k)'

LEMMA MovesOn ==
  ASSUME NEW u \in Pushes, InOrderOf(u), KeptOf(u), emitted[u] \in Seq(Nat),
         emitted'[u] = emitted[u], received'[u] = received[u], crashes' = crashes,
         \E was \in [Nat -> Nat] : Stood(u, was)
  PROVE  InOrderOf(u)' /\ KeptOf(u)'
<1>0. PICK was \in [Nat -> Nat] : Stood(u, was)
  OBVIOUS
<1>1. InOrderOf(u)'
  <2> SUFFICES ASSUME NEW k \in Nat, NEW l \in Nat,
                      NEW i \in Places(u, k)', NEW j \in Places(u, l)', i < j
               PROVE  k < l
    BY DEF InOrderOf
  <2>1. was[i] \in Places(u, k) /\ was[j] \in Places(u, l) /\ was[i] < was[j]
    BY <1>0 DEF Stood
  <2> QED
    BY <2>1 DEF InOrderOf
<1>2. \A k \in Nat : OnTheWay(u, k)' <=> OnTheWay(u, k)
  BY <1>0 DEF Stood, OnTheWay
<1>3. \A i \in 1 .. Len(emitted[u]) : OnTheWay(u, emitted[u][i])' <=> OnTheWay(u, emitted[u][i])
  <2> TAKE i \in 1 .. Len(emitted[u])
  <2>1. emitted[u][i] \in Nat
    BY ElementOf
  <2>2. emitted'[u][i] = emitted[u][i]
    OBVIOUS
  <2> QED
    BY <1>2, <2>1, <2>2
<1>4. \A k \in Nat : OnTheWay(u, k)' => \E i \in 1 .. Len(emitted'[u]) : emitted'[u][i] = k
  BY <1>2 DEF KeptOf
<1>5. \A i, j \in 1 .. Len(emitted'[u]) :
        i < j /\ OnTheWay(u, emitted[u][j])' => OnTheWay(u, emitted[u][i])'
  BY <1>3 DEF KeptOf
<1>6. crashes' = 0 \/ received'[u] < BodyLen =>
        \A i \in 1 .. Len(emitted'[u]) : OnTheWay(u, emitted[u][i])'
  BY <1>3 DEF KeptOf
<1>7. BodyLen' = BodyLen
  BY DEF BodyLen
<1> QED
  BY <1>1, <1>4, <1>5, <1>6, <1>7 DEF KeptOf

(* Frames beyond a place move by a gap, those before it stay. *)
LEMMA Shift ==
  ASSUME LogTypes, LogTypes', NEW u \in Pushes, NEW top \in Nat, NEW gap \in Int,
         \A k, i \in Nat : Stages(u, k, i)' =>
            \/ i <= top /\ Stages(u, k, i)
            \/ i > top /\ i - gap > top /\ Stages(u, k, i - gap),
         \A k, i \in Nat : Stages(u, k, i) => \E j \in Nat : Stages(u, k, j)'
  PROVE  \E was \in [Nat -> Nat] : Stood(u, was)
<1> DEFINE was == [i \in Nat |-> IF i <= top THEN i ELSE IF i - gap > top THEN i - gap ELSE 0]
<1>1. /\ was \in [Nat -> Nat]
      /\ \A i \in Nat : was[i] = IF i <= top THEN i ELSE IF i - gap > top THEN i - gap ELSE 0
  OBVIOUS
<1> HIDE DEF was
<1>2. ASSUME NEW k \in Nat, NEW i \in Places(u, k)'
      PROVE  /\ i \in Nat /\ was[i] \in Places(u, k)
             /\ IF i <= top THEN was[i] = i ELSE was[i] = i - gap /\ was[i] > top
  <2>1. i \in Nat /\ Stages(u, k, i)'
    BY <1>2, PlacesAreThen DEF PlacesKnown
  <2>2. CASE i <= top /\ Stages(u, k, i)
    BY <1>1, <2>1, <2>2, PlacesAre DEF PlacesKnown
  <2>3. CASE i > top /\ i - gap > top /\ Stages(u, k, i - gap)
    <3>1. i - gap \in Nat /\ ~(i <= top)
      BY <2>1, <2>3
    <3>2. was[i] = i - gap
      BY <1>1, <2>1, <2>3, <3>1
    <3> QED
      BY <2>1, <2>3, <3>1, <3>2, PlacesAre DEF PlacesKnown
  <2> QED
    BY <2>1, <2>2, <2>3
<1>3. ASSUME NEW k \in Nat, NEW l \in Nat, NEW i \in Places(u, k)', NEW j \in Places(u, l)', i < j
      PROVE  was[i] < was[j]
  <2>1. /\ i \in Nat /\ (IF i <= top THEN was[i] = i ELSE was[i] = i - gap /\ was[i] > top)
        /\ j \in Nat /\ (IF j <= top THEN was[j] = j ELSE was[j] = j - gap /\ was[j] > top)
    BY <1>2
  <2> QED
    BY <1>3, <2>1
<1>4. ASSUME NEW k \in Nat, OnTheWay(u, k) PROVE OnTheWay(u, k)'
  <2>1. PICK i \in Nat : Stages(u, k, i)
    BY <1>4, PlacesAre DEF PlacesKnown, OnTheWay
  <2>2. PICK j \in Nat : Stages(u, k, j)'
    BY <2>1
  <2> QED
    BY <2>2, PlacesAreThen DEF PlacesKnown, OnTheWay
<1> QED
  BY <1>1, <1>2, <1>3, <1>4 DEF Stood

LEMMA Still ==
  ASSUME LogTypes, LogTypes', NEW u \in Pushes,
         \A k, i \in Nat : Stages(u, k, i)' <=> Stages(u, k, i)
  PROVE  \E was \in [Nat -> Nat] : Stood(u, was)
<1>1. \A k, i \in Nat : Stages(u, k, i)' =>
        \/ i <= 0 /\ Stages(u, k, i)
        \/ i > 0 /\ i - 0 > 0 /\ Stages(u, k, i - 0)
  OBVIOUS
<1>2. 0 \in Nat /\ 0 \in Int
  OBVIOUS
<1> QED
  BY <1>1, <1>2, Shift

(* A place that lies beyond m lies a gap less beyond n. *)
LEMMA Beyond ==
  ASSUME NEW i \in Int, NEW n \in Int, NEW m \in Int, NEW gap \in Int, NEW q \in Nat,
         m = n + gap, i - m \in 1 .. q
  PROVE  i - gap - n = i - m /\ i > m /\ i - gap > n
OBVIOUS

(* The same the other way. *)
LEMMA Back ==
  ASSUME NEW i \in Int, NEW n \in Int, NEW m \in Int, NEW gap \in Int, m = n + gap
  PROVE  i + gap - m = i - n
OBVIOUS

LEMMA TakeWay ==
  ASSUME LogTypes, FramePlace, InOrder, Kept, Decoding, Take
  PROVE  InOrder' /\ Kept'
<1>1. /\ writing = <<>> /\ queue # <<>> /\ writing' = Head(queue) /\ queue' = Tail(queue)
      /\ UNCHANGED <<received, decoded, emitted, appended, file, offset, crashes>>
      /\ ~appended
  BY DEF Take, pushVars, FramePlace
<1>2. queue \in Seq(Pushes \X Nat) /\ Len(file) \in Nat
  BY DEF LogTypes
<1>3. /\ Len(queue) \in Nat \ {0} /\ Head(queue) = queue[1] /\ Len(queue') = Len(queue) - 1
      /\ \A j \in 1 .. Len(queue) - 1 : queue'[j] = queue[j + 1]
  BY <1>1, <1>2
<1>4. LogTypes'
  BY PollTypes
<1> DEFINE top == Len(file)
<1>5. ASSUME NEW u \in Pushes PROVE InOrderOf(u)' /\ KeptOf(u)'
  <2>1. Len(decoded[u]) \in Nat
    BY DEF LogTypes
  <2>2. ASSUME NEW k \in Nat, NEW i \in Nat, Stages(u, k, i)'
        PROVE  \/ i <= top /\ Stages(u, k, i)
               \/ i > top /\ i - (-1) > top /\ Stages(u, k, i - (-1))
    <3>1. CASE Filed(u, k, i)'
      BY <1>1, <3>1 DEF Filed, Stages
    <3>2. CASE BeingWritten(u, k, i)'
      <4>1. i = Len(file) + 1 /\ queue[1] = <<u, k>>
        BY <1>1, <1>3, <3>2 DEF BeingWritten
      <4>2. i - (-1) - (Len(file) + 1) = 1 /\ i > top /\ i - (-1) > top
        BY <1>2, <4>1
      <4> QED
        BY <1>3, <4>1, <4>2 DEF Queued, Stages
    <3>3. CASE Queued(u, k, i)'
      <4> DEFINE j == i - (Len(file) + 1)
      <4>1. j \in 1 .. Len(queue) - 1 /\ queue[j + 1] = <<u, k>>
        BY <1>1, <1>3, <3>3 DEF Queued
      <4>2. i - (-1) - (Len(file) + 1) = j + 1
        BY <1>2
      <4>3. j \in Int /\ i = j + (Len(file) + 1)
        BY <1>2
      <4> HIDE DEF j
      <4>4. j + 1 \in 1 .. Len(queue) /\ j > 0 /\ Len(file) \in Nat
        BY <1>2, <1>3, <4>1, <4>3
      <4>5. i > top /\ i - (-1) > top
        BY <4>3, <4>4
      <4> QED
        BY <4>1, <4>2, <4>4, <4>5 DEF Queued, Stages
    <3>4. CASE Decoded(u, k, i)'
      <4> DEFINE j == i - (Len(file) + Len(queue))
      <4>1. i - (Len(file) + 1 + Len(queue')) = j
        BY <1>2, <1>3
      <4>2. j \in 1 .. Len(decoded[u]) /\ decoded[u][j] = k
        BY <1>1, <3>4, <4>1 DEF Decoded
      <4>3. i - (-1) - (Len(file) + 1 + Len(queue)) = j /\ i > top /\ i - (-1) > top
        BY <1>2, <1>3, <2>1, <4>2
      <4> QED
        BY <4>2, <4>3 DEF Decoded, Stages
    <3> QED
      BY <2>2, <3>1, <3>2, <3>3, <3>4 DEF Stages
  <2>3. ASSUME NEW k \in Nat, NEW i \in Nat, Stages(u, k, i)
        PROVE  \E j \in Nat : Stages(u, k, j)'
    <3>1. CASE Filed(u, k, i)
      BY <1>1, <3>1 DEF Filed, Stages
    <3>2. CASE BeingWritten(u, k, i)
      BY <1>1, <3>2 DEF BeingWritten
    <3>3. CASE Queued(u, k, i)
      <4> DEFINE j == i - (Len(file) + 1)
      <4>1. j \in 1 .. Len(queue) /\ queue[j] = <<u, k>> /\ i - 1 \in Nat
        BY <1>2, <1>3, <3>3 DEF Queued
      <4>2. CASE j = 1
        <5>1. i - 1 = Len(file) + 1
          BY <1>2, <4>2
        <5>2. BeingWritten(u, k, i - 1)'
          BY <1>1, <1>3, <4>1, <4>2, <5>1 DEF BeingWritten
        <5> QED
          BY <4>1, <5>2 DEF Stages
      <4>3. CASE j # 1
        <5>1. i - 1 - (Len(file) + 1) = j - 1 /\ j - 1 \in 1 .. Len(queue')
          BY <1>2, <1>3, <4>1, <4>3
        <5>4. j \in Int /\ j - 1 \in 1 .. Len(queue) - 1 /\ j - 1 + 1 = j
          BY <1>2, <1>3, <4>1, <5>1
        <5>2. queue'[j - 1] = <<u, k>>
          <6> HIDE DEF j
          <6> QED
            BY <1>3, <4>1, <5>4
        <5>3. Queued(u, k, i - 1)'
          BY <1>1, <5>1, <5>2 DEF Queued
        <5> QED
          BY <4>1, <5>3 DEF Stages
      <4> QED
        BY <4>2, <4>3
    <3>4. CASE Decoded(u, k, i)
      <4> DEFINE j == i - (Len(file) + 1 + Len(queue))
      <4>1. j \in 1 .. Len(decoded[u]) /\ decoded[u][j] = k
        BY <3>4 DEF Decoded
      <4>2. i - 1 \in Nat /\ i - 1 - (Len(file) + 1 + Len(queue')) = j
        BY <1>2, <1>3, <2>1, <4>1
      <4>3. Decoded(u, k, i - 1)'
        BY <1>1, <4>1, <4>2 DEF Decoded
      <4> QED
        BY <4>2, <4>3 DEF Stages
    <3> QED
      BY <2>3, <3>1, <3>2, <3>3, <3>4 DEF Stages
  <2>4. top \in Nat /\ -1 \in Int
    BY <1>2
  <2> HIDE DEF top
  <2>5. \E was \in [Nat -> Nat] : Stood(u, was)
    BY <1>4, <2>2, <2>3, <2>4, Shift
  <2>6. InOrderOf(u) /\ KeptOf(u) /\ emitted[u] \in Seq(Nat)
    BY DEF InOrder, Kept, Decoding
  <2> QED
    BY <1>1, <2>5, <2>6, MovesOn
<1> QED
  BY <1>5 DEF InOrder, Kept

LEMMA AppendWay ==
  ASSUME LogTypes, FramePlace, InOrder, Kept, Decoding, AppendBytes
  PROVE  InOrder' /\ Kept'
<1>1. /\ ~appended /\ appended' = TRUE
      /\ UNCHANGED <<received, decoded, emitted, queue, writing, crashes>>
  BY DEF AppendBytes, pushVars
<1>2. FrameLen \in Nat \ {0} /\ Len(file) \in Nat /\ Len(queue) \in Nat
  BY SyncAssumption DEF LogTypes
<1>3. /\ Len(file') = Len(file) + FrameLen
      /\ \A i \in 1 .. Len(file) : file'[i] = file[i]
      /\ \A i \in 1 .. FrameLen : file'[Len(file) + i] = <<writing, i>>
  BY AppendFile DEF FileGrows
<1>4. LogTypes'
  BY PollTypes
<1> DEFINE top == Len(file) + 1
<1>5. ASSUME NEW u \in Pushes PROVE InOrderOf(u)' /\ KeptOf(u)'
  <2>1. Len(decoded[u]) \in Nat
    BY DEF LogTypes
  <2>2. ASSUME NEW k \in Nat, NEW i \in Nat, Stages(u, k, i)'
        PROVE  \/ i <= top /\ Stages(u, k, i)
               \/ i > top /\ i - FrameLen > top /\ Stages(u, k, i - FrameLen)
    <3>1. CASE Filed(u, k, i)'
      <4>1. i \in 1 .. Len(file) + FrameLen /\ file'[i] = <<<<u, k>>, 1>>
        BY <1>3, <3>1 DEF Filed
      <4>2. CASE i <= Len(file)
        <5>1. i \in 1 .. Len(file)
          BY <1>2, <4>1, <4>2
        <5> QED
          BY <1>2, <1>3, <4>1, <5>1 DEF Filed, Stages
      <4>3. CASE i > Len(file)
        <5>1. i - Len(file) \in 1 .. FrameLen /\ Len(file) + (i - Len(file)) = i
          BY <1>2, <4>1, <4>3
        <5>2. file'[i] = <<writing, i - Len(file)>>
          BY <1>3, <5>1
        <5>3. i - Len(file) = 1 /\ writing = <<u, k>>
          BY <4>1, <5>2
        <5>4. i = Len(file) + 1
          BY <1>2, <5>3
        <5> QED
          BY <1>1, <5>3, <5>4 DEF BeingWritten, Stages
      <4> QED
        BY <1>2, <4>2, <4>3
    <3>2. CASE BeingWritten(u, k, i)'
      BY <1>1, <3>2 DEF BeingWritten
    <3>3. CASE Queued(u, k, i)'
      <4> DEFINE m == Len(file') + 1
      <4>1. i - m \in 1 .. Len(queue) /\ queue[i - m] = <<u, k>>
        BY <1>1, <3>3 DEF Queued
      <4>2. m = top + FrameLen /\ m \in Int /\ top \in Int
        BY <1>2, <1>3
      <4> HIDE DEF m, top
      <4>3. i - FrameLen - top = i - m /\ i > m /\ i - FrameLen > top
        BY <1>2, <4>1, <4>2, Beyond
      <4>4. Queued(u, k, i - FrameLen)
        BY <4>1, <4>3 DEF Queued, top
      <4> QED
        BY <1>2, <4>2, <4>3, <4>4 DEF Stages
    <3>4. CASE Decoded(u, k, i)'
      <4> DEFINE m == Len(file') + 1 + Len(queue)
                 n == Len(file) + 1 + Len(queue)
      <4>1. i - m \in 1 .. Len(decoded[u]) /\ decoded[u][i - m] = k
        BY <1>1, <3>4 DEF Decoded
      <4>2. m = n + FrameLen /\ m \in Int /\ n \in Int /\ n >= top /\ top \in Int
        BY <1>2, <1>3
      <4> HIDE DEF m, n, top
      <4>3. i - FrameLen - n = i - m /\ i > m /\ i - FrameLen > n
        BY <1>2, <2>1, <4>1, <4>2, Beyond
      <4>4. Decoded(u, k, i - FrameLen)
        BY <4>1, <4>3 DEF Decoded, n
      <4> QED
        BY <1>2, <4>2, <4>3, <4>4 DEF Stages
    <3> QED
      BY <2>2, <3>1, <3>2, <3>3, <3>4 DEF Stages
  <2>3. ASSUME NEW k \in Nat, NEW i \in Nat, Stages(u, k, i)
        PROVE  \E j \in Nat : Stages(u, k, j)'
    <3>1. CASE Filed(u, k, i)
      <4>1. i \in 1 .. Len(file') /\ file'[i] = <<<<u, k>>, 1>>
        BY <1>2, <1>3, <3>1 DEF Filed
      <4> QED
        BY <4>1 DEF Filed, Stages
    <3>2. CASE BeingWritten(u, k, i)
      <4>1. i = Len(file) + 1 /\ writing = <<u, k>> /\ 1 \in 1 .. FrameLen
        BY <1>2, <3>2 DEF BeingWritten
      <4>2. i \in 1 .. Len(file') /\ file'[i] = <<<<u, k>>, 1>>
        BY <1>2, <1>3, <4>1
      <4> QED
        BY <4>2 DEF Filed, Stages
    <3>3. CASE Queued(u, k, i)
      <4> DEFINE n == Len(file) + 1
                 m == Len(file') + 1
      <4>0. m = n + FrameLen /\ m \in Int /\ n \in Int /\ i + FrameLen \in Nat
        BY <1>2, <1>3
      <4> HIDE DEF m, n
      <4>5. i + FrameLen - m = i - n
        BY <1>2, <4>0, Back
      <4>1. i - n \in 1 .. Len(queue) /\ queue[i - n] = <<u, k>>
        BY <3>3 DEF Queued, n
      <4>6. i + FrameLen - m \in 1 .. Len(queue') /\ queue'[i + FrameLen - m] = <<u, k>>
        BY <1>1, <4>1, <4>5
      <4>7. PICK l \in Nat : l = i + FrameLen
        BY <4>0
      <4>8. l - m \in 1 .. Len(queue') /\ queue'[l - m] = <<u, k>>
        <5>1. l - m = i + FrameLen - m
          BY <1>2, <4>0, <4>7
        <5> QED
          BY <4>6, <5>1, Zenon
      <4>2. Queued(u, k, l)'
        BY <4>8 DEF Queued, m
      <4> QED
        BY <4>2 DEF Stages
    <3>4. CASE Decoded(u, k, i)
      <4> DEFINE n == Len(file) + 1 + Len(queue)
                 m == Len(file') + 1 + Len(queue)
      <4>0. m = n + FrameLen /\ m \in Int /\ n \in Int /\ i + FrameLen \in Nat
        BY <1>2, <1>3
      <4> HIDE DEF m, n
      <4>5. i + FrameLen - m = i - n
        BY <1>2, <4>0, Back
      <4>1. i - n \in 1 .. Len(decoded[u]) /\ decoded[u][i - n] = k
        BY <3>4 DEF Decoded, n
      <4>6. i + FrameLen - m \in 1 .. Len(decoded'[u]) /\ decoded'[u][i + FrameLen - m] = k
        BY <1>1, <4>1, <4>5
      <4>7. m = Len(file') + 1 + Len(queue')
        BY <1>1 DEF m
      <4>8. PICK l \in Nat : l = i + FrameLen
        BY <4>0
      <4>10. l - m = i + FrameLen - m
        BY <1>2, <4>0, <4>8
      <4>9. l - m \in 1 .. Len(decoded'[u]) /\ decoded'[u][l - m] = k
        BY <4>6, <4>10, Zenon
      <4>2. Decoded(u, k, l)'
        BY <4>7, <4>9 DEF Decoded
      <4> QED
        BY <4>2 DEF Stages
    <3> QED
      BY <2>3, <3>1, <3>2, <3>3, <3>4 DEF Stages
  <2>4. top \in Nat /\ FrameLen \in Int
    BY <1>2
  <2> HIDE DEF top
  <2>5. \E was \in [Nat -> Nat] : Stood(u, was)
    BY <1>4, <2>2, <2>3, <2>4, Shift
  <2>6. InOrderOf(u) /\ KeptOf(u) /\ emitted[u] \in Seq(Nat)
    BY DEF InOrder, Kept, Decoding
  <2> QED
    BY <1>1, <2>5, <2>6, MovesOn
<1> QED
  BY <1>5 DEF InOrder, Kept

-----------------------------------------------------------------------------
(* The step leaves the way as it is. *)
LEMMA SameWay ==
  ASSUME LogTypes, LogTypes', InOrder, Kept, Decoding,
         UNCHANGED <<emitted, received, crashes>>,
         \A u \in Pushes : \A k, i \in Nat : Stages(u, k, i)' <=> Stages(u, k, i)
  PROVE  InOrder' /\ Kept'
<1>1. ASSUME NEW u \in Pushes PROVE InOrderOf(u)' /\ KeptOf(u)'
  <2>1. InOrderOf(u) /\ KeptOf(u) /\ emitted[u] \in Seq(Nat)
    BY DEF InOrder, Kept, Decoding
  <2>2. \E was \in [Nat -> Nat] : Stood(u, was)
    BY Still
  <2> QED
    BY <2>1, <2>2, MovesOn
<1> QED
  BY <1>1 DEF InOrder, Kept

LEMMA WrittenWay ==
  ASSUME LogTypes, InOrder, Kept, Decoding, Written
  PROVE  InOrder' /\ Kept'
<1>1. /\ appended /\ writing' = <<>>
      /\ UNCHANGED <<received, decoded, emitted, queue, file, crashes>>
  BY DEF Written, pushVars
<1>2. LogTypes'
  BY PollTypes
<1>3. ASSUME NEW u \in Pushes, NEW k \in Nat, NEW i \in Nat
      PROVE  Stages(u, k, i)' <=> Stages(u, k, i)
  <2>1. Filed(u, k, i)' <=> Filed(u, k, i)
    BY <1>1 DEF Filed
  <2>2. ~BeingWritten(u, k, i)' /\ ~BeingWritten(u, k, i)
    BY <1>1 DEF BeingWritten
  <2>3. Queued(u, k, i)' <=> Queued(u, k, i)
    BY <1>1 DEF Queued
  <2>4. Decoded(u, k, i)' <=> Decoded(u, k, i)
    BY <1>1 DEF Decoded
  <2> QED
    BY <2>1, <2>2, <2>3, <2>4 DEF Stages
<1> QED
  BY <1>1, <1>2, <1>3, SameWay

LEMMA TailIs ==
  ASSUME NEW s \in Seq(Nat), s # <<>>
  PROVE  /\ Len(s) \in Nat \ {0} /\ Len(Tail(s)) = Len(s) - 1
         /\ \A j \in 1 .. Len(s) - 1 : Tail(s)[j] = s[j + 1]
OBVIOUS

LEMMA TransactWay ==
  ASSUME LogTypes, InOrder, Kept, Decoding, NEW w \in Pushes, Transact(w)
  PROVE  InOrder' /\ Kept'
<1> DEFINE h == decoded[w][1]
           a == Len(file) + 1
           n == Len(file) + 1 + Len(queue)
           q == Len(queue)
<1>1. /\ decoded[w] # <<>> /\ decoded' = [decoded EXCEPT ![w] = Tail(decoded[w])]
      /\ queue' = Append(queue, <<w, Head(decoded[w])>>)
      /\ UNCHANGED <<received, emitted, writing, appended, file, crashes>>
  BY DEF Transact
<1>2. /\ queue \in Seq(Pushes \X Nat) /\ decoded \in [Pushes -> Seq(Nat)]
      /\ Len(file) \in Nat /\ Len(queue) \in Nat
      /\ \A u \in Pushes : Len(decoded[u]) \in Nat
  BY DEF LogTypes
<1>3. LogTypes'
  BY TransactTypes
<1>4. /\ Len(queue') = q + 1 /\ queue'[q + 1] = <<w, h>>
      /\ \A j \in 1 .. q : queue'[j] = queue[j]
  <2>1. Head(decoded[w]) = h
    BY <1>1, <1>2
  <2> QED
    BY <1>1, <1>2, <2>1
<1>5. /\ Len(decoded[w]) \in Nat \ {0} /\ Len(decoded'[w]) = Len(decoded[w]) - 1
      /\ \A j \in 1 .. Len(decoded[w]) - 1 : decoded'[w][j] = decoded[w][j + 1]
  <2>1. decoded'[w] = Tail(decoded[w]) /\ decoded[w] \in Seq(Nat) /\ decoded[w] # <<>>
    BY <1>1, <1>2
  <2> QED
    BY <2>1, TailIs
<1>6. /\ a \in Int /\ n \in Int /\ q \in Nat /\ n = a + q /\ Len(file') + 1 = a
      /\ Len(file') + 1 + Len(queue') = n + 1 /\ n > 0 /\ n \in Nat
  BY <1>1, <1>2, <1>4
<1> HIDE DEF h
<1>7. ASSUME NEW u \in Pushes, NEW k \in Nat, NEW i \in Nat
      PROVE  /\ Queued(u, k, i) <=> i - a \in 1 .. q /\ queue[i - a] = <<u, k>>
             /\ Queued(u, k, i)' <=> Queued(u, k, i) \/ (i = n + 1 /\ u = w /\ h = k)
             /\ Filed(u, k, i)' <=> Filed(u, k, i)
             /\ Filed(u, k, i) => i < n
             /\ BeingWritten(u, k, i)' <=> BeingWritten(u, k, i)
             /\ BeingWritten(u, k, i) => i <= n
             /\ Queued(u, k, i) => i <= n
             /\ Decoded(u, k, i) <=> i - n \in 1 .. Len(decoded[u]) /\ decoded[u][i - n] = k
             /\ Decoded(u, k, i)' <=>
                  i - (n + 1) \in 1 .. Len(decoded'[u]) /\ decoded'[u][i - (n + 1)] = k
  <2>1. Queued(u, k, i) <=> i - a \in 1 .. q /\ queue[i - a] = <<u, k>>
    BY DEF Queued
  <2>2. Queued(u, k, i)' <=> i - a \in 1 .. q + 1 /\ queue'[i - a] = <<u, k>>
    BY <1>1, <1>4 DEF Queued
  <2>3. i - a = q + 1 <=> i = n + 1
    BY <1>2
  <2>4. <<w, h>> = <<u, k>> <=> u = w /\ h = k
    OBVIOUS
  <2>5. i - a \in Int
    BY <1>6
  <2> HIDE DEF a, n, q
  <2>6. Queued(u, k, i)' <=> Queued(u, k, i) \/ (i = n + 1 /\ u = w /\ h = k)
    <3>1. CASE i - a = q + 1
      <4>1. i - a \in 1 .. q + 1 /\ i - a \notin 1 .. q
        BY <1>6, <2>5, <3>1
      <4>2. queue'[i - a] = <<w, h>>
        BY <1>4, <3>1
      <4>3. Queued(u, k, i)' <=> u = w /\ h = k
        BY <2>2, <2>4, <4>1, <4>2
      <4>4. ~Queued(u, k, i)
        BY <2>1, <4>1
      <4> QED
        BY <2>3, <3>1, <4>3, <4>4
    <3>2. CASE i - a # q + 1
      <4>1. i - a \in 1 .. q + 1 <=> i - a \in 1 .. q
        BY <1>6, <2>5, <3>2
      <4> QED
        BY <1>4, <2>1, <2>2, <2>3, <3>2, <4>1
    <3> QED
      BY <3>1, <3>2
  <2>7. Filed(u, k, i)' <=> Filed(u, k, i)
    BY <1>1 DEF Filed
  <2>8. BeingWritten(u, k, i)' <=> BeingWritten(u, k, i)
    BY <1>1 DEF BeingWritten
  <2>9. Filed(u, k, i) => i < n
    BY <1>2 DEF Filed, n
  <2>10. BeingWritten(u, k, i) => i <= n
    BY <1>2 DEF BeingWritten, n
  <2>11. Queued(u, k, i) => i <= n
    BY <1>6, <2>1, <2>5
  <2>12. Decoded(u, k, i) <=> i - n \in 1 .. Len(decoded[u]) /\ decoded[u][i - n] = k
    BY DEF Decoded, n
  <2>13. Decoded(u, k, i)' <=>
           i - (n + 1) \in 1 .. Len(decoded'[u]) /\ decoded'[u][i - (n + 1)] = k
    BY <1>6 DEF Decoded
  <2> QED
    BY <2>1, <2>6, <2>7, <2>8, <2>9, <2>10, <2>11, <2>12, <2>13
<1>11. ASSUME NEW k \in Nat, NEW i \in Nat
       PROVE  /\ Decoded(w, k, i) <=> i - n \in 1 .. Len(decoded[w]) /\ decoded[w][i - n] = k
              /\ Decoded(w, k, i)' <=>
                   i - (n + 1) \in 1 .. Len(decoded'[w]) /\ decoded'[w][i - (n + 1)] = k
  BY <1>7
<1> HIDE DEF a, n, q
<1>8. ASSUME NEW u \in Pushes, u # w PROVE \E was \in [Nat -> Nat] : Stood(u, was)
  <2>0. decoded'[u] = decoded[u]
    BY <1>1, <1>2, <1>8
  <2>1. ASSUME NEW k \in Nat, NEW i \in Nat, Stages(u, k, i)'
        PROVE  \/ i <= n /\ Stages(u, k, i)
               \/ i > n /\ i - 1 > n /\ Stages(u, k, i - 1)
    <3>1. CASE Filed(u, k, i)' \/ BeingWritten(u, k, i)' \/ Queued(u, k, i)'
      BY <1>6, <1>7, <1>8, <3>1 DEF Stages
    <3>2. CASE Decoded(u, k, i)'
      <4>1. i - (n + 1) \in 1 .. Len(decoded[u]) /\ decoded[u][i - (n + 1)] = k
        BY <1>7, <2>0, <3>2
      <4>2. i - 1 - n = i - (n + 1) /\ i > n /\ i - 1 > n /\ i - 1 \in Nat
        BY <1>2, <1>6, <4>1
      <4>3. Decoded(u, k, i - 1)
        BY <1>7, <4>1, <4>2
      <4> QED
        BY <4>2, <4>3 DEF Stages
    <3> QED
      BY <2>1, <3>1, <3>2 DEF Stages
  <2>2. ASSUME NEW k \in Nat, NEW i \in Nat, Stages(u, k, i)
        PROVE  \E j \in Nat : Stages(u, k, j)'
    <3>1. CASE Filed(u, k, i) \/ BeingWritten(u, k, i) \/ Queued(u, k, i)
      BY <1>7, <3>1 DEF Stages
    <3>2. CASE Decoded(u, k, i)
      <4>1. i - n \in 1 .. Len(decoded[u]) /\ decoded[u][i - n] = k
        BY <1>7, <3>2
      <4>2. PICK l \in Nat : l = i + 1
        OBVIOUS
      <4>4. l - (n + 1) = i - n
        BY <1>6, <4>2
      <4>3. Decoded(u, k, l)'
        BY <1>7, <2>0, <4>1, <4>4
      <4> QED
        BY <4>2, <4>3 DEF Stages
    <3> QED
      BY <2>2, <3>1, <3>2 DEF Stages
  <2>3. n \in Nat /\ 1 \in Int
    BY <1>6
  <2> QED
    BY <1>3, <2>1, <2>2, <2>3, Shift
<1>9. \E was \in [Nat -> Nat] : Stood(w, was)
  <2>1. ASSUME NEW k \in Nat, NEW i \in Nat
        PROVE  Decoded(w, k, i) <=> Decoded(w, k, i)' \/ (i = n + 1 /\ h = k)
    <3>1. CASE i = n + 1
      <4>1. i - n = 1 /\ i - (n + 1) = 0
        BY <1>6, <3>1
      <4>2. Decoded(w, k, i) <=> h = k
        <5>1. Decoded(w, k, i) <=> i - n \in 1 .. Len(decoded[w]) /\ decoded[w][i - n] = k
          BY <1>11
        <5>2. 1 \in 1 .. Len(decoded[w])
          BY <1>5
        <5> QED
          BY <4>1, <5>1, <5>2 DEF h
      <4>3. Decoded(w, k, i)' => i - (n + 1) \in 1 .. Len(decoded'[w])
        BY <1>7
      <4>4. i - (n + 1) \notin 1 .. Len(decoded'[w])
        BY <1>5, <4>1
      <4> QED
        BY <3>1, <4>2, <4>3, <4>4
    <3>2. CASE i # n + 1
      <4>1. PICK j \in Int : j = i - (n + 1)
        BY <1>6
      <4>2. i - n = j + 1 /\ j # 0
        BY <1>6, <3>2, <4>1
      <4>3. Decoded(w, k, i) <=> j + 1 \in 1 .. Len(decoded[w]) /\ decoded[w][j + 1] = k
        <5>1. Decoded(w, k, i) <=> i - n \in 1 .. Len(decoded[w]) /\ decoded[w][i - n] = k
          BY <1>11
        <5> QED
          BY <4>2, <5>1
      <4>4. Decoded(w, k, i)' <=> j \in 1 .. Len(decoded[w]) - 1 /\ decoded'[w][j] = k
        <5>1. Decoded(w, k, i)' <=>
                i - (n + 1) \in 1 .. Len(decoded'[w]) /\ decoded'[w][i - (n + 1)] = k
          BY <1>11
        <5> QED
          BY <1>5, <4>1, <5>1
      <4>5. j + 1 \in 1 .. Len(decoded[w]) <=> j \in 1 .. Len(decoded[w]) - 1
        BY <1>5, <4>2
      <4> QED
        BY <1>5, <3>2, <4>3, <4>4, <4>5
    <3> QED
      BY <3>1, <3>2
  <2>2. \A k, i \in Nat : Stages(w, k, i)' <=> Stages(w, k, i)
    BY <1>7, <2>1 DEF Stages
  <2> QED
    BY <1>3, <2>2, Still
<1>10. ASSUME NEW u \in Pushes PROVE InOrderOf(u)' /\ KeptOf(u)'
  <2>1. \E was \in [Nat -> Nat] : Stood(u, was)
    BY <1>8, <1>9
  <2>2. InOrderOf(u) /\ KeptOf(u) /\ emitted[u] \in Seq(Nat)
    BY DEF InOrder, Kept, Decoding
  <2> QED
    BY <1>1, <2>1, <2>2, MovesOn
<1> QED
  BY <1>10 DEF InOrder, Kept

-----------------------------------------------------------------------------
(* Two increasing sequences, the second one above the first. *)
LEMMA Longer ==
  ASSUME NEW s \in Seq(Nat), NEW t \in Seq(Nat), Ordered(s), Ordered(t),
         \A i \in 1 .. Len(s) : \A j \in 1 .. Len(t) : s[i] < t[j]
  PROVE  Ordered(s \o t)
<1> DEFINE r == s \o t
<1>1. /\ r \in Seq(Nat) /\ Len(r) = Len(s) + Len(t)
      /\ \A i \in 1 .. Len(s) : r[i] = s[i]
      /\ \A i \in Len(s) + 1 .. Len(s) + Len(t) : r[i] = t[i - Len(s)]
  BY Joined
<1>2. Len(s) \in Nat /\ Len(t) \in Nat
  OBVIOUS
<1> HIDE DEF r
<1>3. ASSUME NEW i \in 1 .. Len(r), NEW j \in 1 .. Len(r), i < j PROVE r[i] < r[j]
  <2>1. CASE j <= Len(s)
    <3>1. i \in 1 .. Len(s) /\ j \in 1 .. Len(s)
      BY <1>1, <1>2, <1>3, <2>1
    <3> QED
      BY <1>1, <1>3, <3>1 DEF Ordered
  <2>2. CASE i <= Len(s) /\ j > Len(s)
    <3>1. i \in 1 .. Len(s) /\ j \in Len(s) + 1 .. Len(s) + Len(t) /\ j - Len(s) \in 1 .. Len(t)
      BY <1>1, <1>2, <2>2
    <3>2. r[i] = s[i] /\ r[j] = t[j - Len(s)]
      BY <1>1, <3>1, Zenon
    <3>3. s[i] < t[j - Len(s)]
      BY <3>1, Zenon
    <3> QED
      BY <3>2, <3>3, Zenon
  <2>3. CASE i > Len(s)
    <3>1. /\ i \in Len(s) + 1 .. Len(s) + Len(t) /\ i - Len(s) \in 1 .. Len(t)
          /\ j \in Len(s) + 1 .. Len(s) + Len(t) /\ j - Len(s) \in 1 .. Len(t)
          /\ i - Len(s) < j - Len(s)
      BY <1>1, <1>2, <1>3, <2>3
    <3>2. t[i - Len(s)] < t[j - Len(s)]
      BY <3>1 DEF Ordered
    <3> QED
      BY <1>1, <3>1, <3>2
  <2>4. i \in Int /\ j \in Int
    BY <1>1, <1>2
  <2> QED
    BY <1>2, <2>1, <2>2, <2>3, <2>4
<1> QED
  BY <1>3 DEF r, Ordered

(* What arrives of a push and is decoded: the frames that end in it. *)
LEMMA ReceiveDecoding ==
  ASSUME LogTypes, Decoding, NEW w \in Pushes, NEW n \in 1 .. BodyLen, Receive(w, n)
  PROVE  /\ Decoding'
         /\ \E t \in Seq(Nat) :
              /\ emitted'[w] = emitted[w] \o t /\ decoded'[w] = decoded[w] \o t /\ Ordered(t)
              /\ \A i \in 1 .. Len(emitted[w]) : \A j \in 1 .. Len(t) : emitted[w][i] < t[j]
         /\ received[w] < BodyLen
<1> DEFINE r == received[w]
           t == Partition(r, r + n)
           e == emitted[w]
<1>0. BodyLen \in Nat /\ FrameLen \in Nat
  BY SyncAssumption DEF BodyLen
<1>1. /\ r + n <= BodyLen
      /\ received' = [received EXCEPT ![w] = r + n]
      /\ decoded' = [decoded EXCEPT ![w] = decoded[w] \o t]
      /\ emitted' = [emitted EXCEPT ![w] = e \o t]
  BY DEF Receive
<1>2. /\ received \in [Pushes -> Nat] /\ decoded \in [Pushes -> Seq(Nat)]
      /\ emitted \in [Pushes -> Seq(Nat)] /\ r \in Nat /\ n \in Nat /\ n > 0
  BY <1>0 DEF LogTypes, Decoding
<1>3. /\ t \in Seq(Nat) /\ Ordered(t)
      /\ \A i \in 1 .. Len(t) : r < t[i] * FrameLen /\ t[i] * FrameLen <= r + n /\ t[i] > 0
  <2>1. r + n \in Nat /\ r <= r + n
    BY <1>2
  <2> HIDE DEF r
  <2> QED
    BY <1>2, <2>1, PartitionIs
<1>4. /\ received'[w] = r + n /\ decoded'[w] = decoded[w] \o t /\ emitted'[w] = e \o t
      /\ emitted' \in [Pushes -> Seq(Nat)]
  <2> HIDE DEF t
  <2>1. received'[w] = r + n
    BY <1>1, <1>2
  <2>2. decoded'[w] = decoded[w] \o t
    BY <1>1, <1>2
  <2>3. e \in Seq(Nat) /\ e \o t \in Seq(Nat)
    BY <1>2, <1>3
  <2>4. emitted'[w] = e \o t /\ emitted' \in [Pushes -> Seq(Nat)]
    BY <1>1, <1>2, <2>3
  <2> QED
    BY <2>1, <2>2, <2>4
<1>5. e \in Seq(Nat) /\ Ordered(e)
      /\ \A i \in 1 .. Len(e) : e[i] > 0 /\ e[i] * FrameLen <= r
  BY DEF Decoding
<1> HIDE DEF r, t, e
<1>6. \A i \in 1 .. Len(e) : \A j \in 1 .. Len(t) : e[i] < t[j]
  <2> TAKE i \in 1 .. Len(e)
  <2> TAKE j \in 1 .. Len(t)
  <2>1. e[i] \in Nat /\ t[j] \in Nat
    BY <1>3, <1>5, ElementOf
  <2>2. e[i] * FrameLen \in Nat /\ t[j] * FrameLen \in Nat
    BY <1>0, <2>1
  <2>3. e[i] * FrameLen <= r /\ r < t[j] * FrameLen
    BY <1>3, <1>5
  <2>4. e[i] * FrameLen < t[j] * FrameLen
    BY <1>2, <2>2, <2>3
  <2> QED
    BY <1>0, <2>1, <2>4, Larger
<1>7. Ordered(e \o t)
  BY <1>3, <1>5, <1>6, Longer
<1>8. ASSUME NEW i \in 1 .. Len(e \o t)
      PROVE  (e \o t)[i] > 0 /\ (e \o t)[i] * FrameLen <= r + n
  <2>1. /\ Len(e \o t) = Len(e) + Len(t)
        /\ \A j \in 1 .. Len(e) : (e \o t)[j] = e[j]
        /\ \A j \in Len(e) + 1 .. Len(e) + Len(t) : (e \o t)[j] = t[j - Len(e)]
    BY <1>3, <1>5, Joined
  <2>2. Len(e) \in Nat /\ Len(t) \in Nat
    BY <1>3, <1>5
  <2>3. CASE i <= Len(e)
    <3>1. i \in 1 .. Len(e) /\ (e \o t)[i] = e[i]
      BY <2>1, <2>2, <2>3
    <3>2. e[i] * FrameLen \in Nat
      BY <1>0, <1>5, <3>1, ElementOf
    <3> QED
      BY <1>2, <1>5, <3>1, <3>2
  <2>4. CASE i > Len(e)
    <3>1. i - Len(e) \in 1 .. Len(t) /\ i \in Len(e) + 1 .. Len(e) + Len(t)
      BY <2>1, <2>2, <2>4
    <3>2. (e \o t)[i] = t[i - Len(e)]
      BY <2>1, <3>1
    <3> QED
      BY <1>3, <3>1, <3>2
  <2> QED
    BY <2>1, <2>2, <2>3, <2>4
<1>9. Decoding'
  <2> SUFFICES ASSUME NEW u \in Pushes
               PROVE  /\ Ordered(emitted'[u])
                      /\ \A i \in 1 .. Len(emitted'[u]) :
                           emitted'[u][i] > 0 /\ emitted'[u][i] * FrameLen <= received'[u]
                      /\ received'[u] <= BodyLen
    BY <1>4 DEF Decoding, Ordered, BodyLen
  <2>1. CASE u = w
    BY <1>1, <1>4, <1>7, <1>8, <2>1
  <2>2. CASE u # w
    <3>1. emitted'[u] = emitted[u] /\ received'[u] = received[u]
      BY <1>1, <1>2, <2>2
    <3> QED
      BY <3>1 DEF Decoding
  <2> QED
    BY <2>1, <2>2
<1>10. received[w] < BodyLen
  BY <1>0, <1>1, <1>2 DEF r
<1> QED
  BY <1>3, <1>4, <1>6, <1>9, <1>10 DEF e

LEMMA ReceiveWay ==
  ASSUME LogTypes, InOrder, Kept, Decoding,
         NEW w \in Pushes, NEW n \in 1 .. BodyLen, Receive(w, n)
  PROVE  InOrder' /\ Kept'
<1> DEFINE s == decoded[w]
           e == emitted[w]
           m == Len(file) + 1 + Len(queue)
<1>1. /\ received' = [received EXCEPT ![w] = received[w] + n]
      /\ UNCHANGED <<queue, writing, appended, file, crashes>>
      /\ \A u \in Pushes : u # w =>
           decoded'[u] = decoded[u] /\ emitted'[u] = emitted[u] /\ received'[u] = received[u]
  BY DEF Receive, logVars, LogTypes, Decoding
<1>2. PICK t \in Seq(Nat) :
        /\ emitted'[w] = e \o t /\ decoded'[w] = s \o t /\ Ordered(t)
        /\ \A i \in 1 .. Len(e) : \A j \in 1 .. Len(t) : e[i] < t[j]
  BY ReceiveDecoding
<1>3. received[w] < BodyLen
  BY ReceiveDecoding
<1>4. LogTypes'
  BY ReceiveTypes
<1>5. s \in Seq(Nat) /\ e \in Seq(Nat) /\ Len(s) \in Nat /\ Len(e) \in Nat /\ Len(t) \in Nat
  BY DEF LogTypes, Decoding
<1>17. Len(file) \in Nat /\ Len(queue) \in Nat /\ m \in Nat
  BY DEF LogTypes
<1>6. /\ Len(s \o t) = Len(s) + Len(t)
      /\ \A i \in 1 .. Len(s) : (s \o t)[i] = s[i]
      /\ \A i \in Len(s) + 1 .. Len(s) + Len(t) : (s \o t)[i] = t[i - Len(s)]
  BY <1>5, Joined
<1>7. /\ Len(e \o t) = Len(e) + Len(t)
      /\ \A i \in 1 .. Len(e) : (e \o t)[i] = e[i]
      /\ \A i \in Len(e) + 1 .. Len(e) + Len(t) : (e \o t)[i] = t[i - Len(e)]
  BY <1>5, Joined
<1>8. ASSUME NEW u \in Pushes, NEW k \in Nat, NEW i \in Nat
      PROVE  /\ Filed(u, k, i)' <=> Filed(u, k, i)
             /\ BeingWritten(u, k, i)' <=> BeingWritten(u, k, i)
             /\ Queued(u, k, i)' <=> Queued(u, k, i)
             /\ Filed(u, k, i) \/ BeingWritten(u, k, i) \/ Queued(u, k, i) => i <= m
             /\ Decoded(u, k, i) <=> i - m \in 1 .. Len(decoded[u]) /\ decoded[u][i - m] = k
             /\ Decoded(u, k, i)' <=> i - m \in 1 .. Len(decoded'[u]) /\ decoded'[u][i - m] = k
  <2>1. Filed(u, k, i)' <=> Filed(u, k, i)
    BY <1>1 DEF Filed
  <2>2. BeingWritten(u, k, i)' <=> BeingWritten(u, k, i)
    BY <1>1 DEF BeingWritten
  <2>3. Queued(u, k, i)' <=> Queued(u, k, i)
    BY <1>1 DEF Queued
  <2>4. Filed(u, k, i) => i <= m
    BY <1>17 DEF Filed
  <2>5. BeingWritten(u, k, i) => i <= m
    BY <1>17 DEF BeingWritten
  <2>6. Queued(u, k, i) => i <= m
    <3>4. i - (Len(file) + 1) \in Int
      BY <1>17
    <3>1. PICK j \in Int : j = i - (Len(file) + 1)
      BY <3>4
    <3>2. i = j + (Len(file) + 1)
      BY <1>17, <3>1
    <3>3. Queued(u, k, i) => j <= Len(queue)
      BY <1>17, <3>1 DEF Queued
    <3> QED
      BY <1>17, <3>2, <3>3
  <2>7. Decoded(u, k, i) <=> i - m \in 1 .. Len(decoded[u]) /\ decoded[u][i - m] = k
    BY DEF Decoded
  <2>8. Decoded(u, k, i)' <=> i - m \in 1 .. Len(decoded'[u]) /\ decoded'[u][i - m] = k
    BY <1>1 DEF Decoded
  <2> QED
    BY <2>1, <2>2, <2>3, <2>4, <2>5, <2>6, <2>7, <2>8
<1> HIDE DEF s, e, m
<1> DEFINE top == m + Len(s)
           New(k, i) == i - top \in 1 .. Len(t) /\ t[i - top] = k
<1>9. ASSUME NEW u \in Pushes, u # w PROVE InOrderOf(u)' /\ KeptOf(u)'
  <2>1. \A k, i \in Nat : Stages(u, k, i)' <=> Stages(u, k, i)
    BY <1>1, <1>8, <1>9 DEF Stages
  <2>2. \E was \in [Nat -> Nat] : Stood(u, was)
    BY <1>4, <2>1, Still
  <2>3. InOrderOf(u) /\ KeptOf(u) /\ emitted[u] \in Seq(Nat)
    BY DEF InOrder, Kept, Decoding
  <2> QED
    BY <1>1, <1>9, <2>2, <2>3, MovesOn
<1>10. top \in Nat /\ m <= top
  BY <1>5, <1>17
<1>11. ASSUME NEW k \in Nat, NEW i \in Nat
       PROVE  /\ Stages(w, k, i)' <=> Stages(w, k, i) \/ New(k, i)
              /\ Stages(w, k, i) => i <= top
              /\ New(k, i) => i > top
  <2>1. PICK j \in Int : j = i - m
    BY <1>17
  <2>2. i - top = j - Len(s) /\ i = j + m
    BY <1>5, <1>17, <2>1
  <2>3. Decoded(w, k, i) <=> j \in 1 .. Len(s) /\ s[j] = k
    BY <1>8, <1>17, <2>1 DEF s
  <2>4. Decoded(w, k, i)' <=> j \in 1 .. Len(s) + Len(t) /\ (s \o t)[j] = k
    <3>1. Decoded(w, k, i)' <=> i - m \in 1 .. Len(decoded'[w]) /\ decoded'[w][i - m] = k
      BY <1>8
    <3>2. decoded'[w] = s \o t /\ Len(decoded'[w]) = Len(s) + Len(t)
      BY <1>2, <1>6
    <3>3. Decoded(w, k, i)' <=> j \in 1 .. Len(decoded'[w]) /\ decoded'[w][j] = k
      BY <1>17, <2>1, <3>1
    <3> QED
      BY <3>2, <3>3, Zenon
  <2>5. New(k, i) <=> j - Len(s) \in 1 .. Len(t) /\ t[j - Len(s)] = k
    BY <2>2
  <2> HIDE DEF top, New
  <2>6. j \in 1 .. Len(s) + Len(t) <=> j \in 1 .. Len(s) \/ j \in Len(s) + 1 .. Len(s) + Len(t)
    BY <1>5
  <2>7. j - Len(s) \in 1 .. Len(t) <=> j \in Len(s) + 1 .. Len(s) + Len(t)
    BY <1>5
  <2>8. Decoded(w, k, i)' <=> Decoded(w, k, i) \/ New(k, i)
    BY <1>6, <2>3, <2>4, <2>5, <2>6, <2>7
  <2>9. Decoded(w, k, i) => i <= top
    BY <1>5, <1>17, <2>2, <2>3 DEF top
  <2>10. New(k, i) => i > top
    BY <1>5, <1>17, <2>2, <2>5, <2>7 DEF top
  <2>11. i <= m => i <= top
    BY <1>10, <1>17
  <2> QED
    BY <1>8, <2>8, <2>9, <2>10, <2>11 DEF Stages
<1> HIDE DEF top
<1>12. ASSUME NEW k \in Nat, OnTheWay(w, k)
       PROVE  \E a \in 1 .. Len(e) : e[a] = k
  BY <1>12 DEF Kept, KeptOf, e
<1>13. InOrderOf(w)'
  <2> SUFFICES ASSUME NEW k \in Nat, NEW l \in Nat,
                      NEW i \in Places(w, k)', NEW j \in Places(w, l)', i < j
               PROVE  k < l
    BY DEF InOrderOf
  <2>1. i \in Nat /\ Stages(w, k, i)' /\ j \in Nat /\ Stages(w, l, j)'
    BY <1>4, PlacesAreThen DEF PlacesKnown
  <2>2. CASE Stages(w, l, j)
    <3>1. Stages(w, k, i)
      BY <1>10, <1>11, <2>1, <2>2
    <3>2. i \in Places(w, k) /\ j \in Places(w, l)
      BY <2>1, <2>2, <3>1, PlacesAre DEF PlacesKnown
    <3> QED
      BY <3>2 DEF InOrder, InOrderOf
  <2>3. CASE New(l, j) /\ Stages(w, k, i)
    <3>1. i \in Places(w, k)
      BY <2>1, <2>3, PlacesAre DEF PlacesKnown
    <3>2. PICK a \in 1 .. Len(e) : e[a] = k
      BY <1>12, <3>1 DEF OnTheWay
    <3> QED
      BY <1>2, <2>3, <3>2
  <2>4. CASE New(l, j) /\ New(k, i)
    <3>1. i - top < j - top
      BY <1>10, <2>1
    <3> QED
      BY <1>2, <2>4, <3>1 DEF Ordered
  <2> QED
    BY <1>11, <2>1, <2>2, <2>3, <2>4
<1>14. \A k \in Nat : OnTheWay(w, k)' => \E a \in 1 .. Len(e \o t) : (e \o t)[a] = k
  <2> SUFFICES ASSUME NEW k \in Nat, OnTheWay(w, k)' PROVE \E a \in 1 .. Len(e \o t) : (e \o t)[a] = k
    OBVIOUS
  <2>1. PICK i \in Nat : Stages(w, k, i)'
    BY <1>4, PlacesAreThen DEF PlacesKnown, OnTheWay
  <2>2. CASE Stages(w, k, i)
    <3>1. OnTheWay(w, k)
      BY <2>2, PlacesAre DEF PlacesKnown, OnTheWay
    <3>2. PICK a \in 1 .. Len(e) : e[a] = k
      BY <1>12, <3>1
    <3>3. a \in 1 .. Len(e \o t)
      BY <1>5, <1>7
    <3> QED
      BY <1>7, <3>2, <3>3
  <2>3. CASE New(k, i)
    <3>1. PICK b \in 1 .. Len(t) : t[b] = k
      BY <2>3
    <3>2. PICK c \in Nat : c = Len(e) + b
      BY <1>5
    <3>3. c \in Len(e) + 1 .. Len(e) + Len(t) /\ c - Len(e) = b /\ c \in 1 .. Len(e \o t)
      BY <1>5, <1>7, <3>2
    <3> QED
      BY <1>7, <3>1, <3>3
  <2> QED
    BY <1>11, <2>1, <2>2, <2>3
<1>15. ASSUME NEW a \in 1 .. Len(e \o t), NEW k \in Nat, k = (e \o t)[a] PROVE OnTheWay(w, k)'
  <2>1. CASE a <= Len(e)
    <3>1. a \in 1 .. Len(e) /\ e[a] = k
      BY <1>5, <1>7, <1>15, <2>1
    <3>2. OnTheWay(w, k)
      BY <1>3, <3>1 DEF Kept, KeptOf, e
    <3>3. PICK i \in Nat : Stages(w, k, i)
      BY <3>2, PlacesAre DEF PlacesKnown, OnTheWay
    <3>4. Stages(w, k, i)'
      BY <1>11, <3>3
    <3> QED
      BY <1>4, <3>4, PlacesAreThen DEF PlacesKnown, OnTheWay
  <2>2. CASE a > Len(e)
    <3>1. a \in Len(e) + 1 .. Len(e) + Len(t) /\ a - Len(e) \in 1 .. Len(t)
      BY <1>5, <1>7, <2>2
    <3>2. PICK b \in 1 .. Len(t) : b = a - Len(e)
      BY <3>1
    <3>3. t[b] = k
      BY <1>7, <1>15, <3>1, <3>2
    <3>4. PICK i \in Nat : i = top + b
      BY <1>5, <1>10
    <3>5. i - top = b
      BY <1>10, <3>4
    <3>6. New(k, i)
      BY <3>3, <3>5
    <3>7. Stages(w, k, i)'
      BY <1>11, <3>6
    <3> QED
      BY <1>4, <3>7, PlacesAreThen DEF PlacesKnown, OnTheWay
  <2> QED
    BY <1>5, <1>7, <2>1, <2>2
<1>16. KeptOf(w)'
  <2>1. \A k \in Nat : OnTheWay(w, k)' => \E a \in 1 .. Len(emitted'[w]) : emitted'[w][a] = k
    BY <1>2, <1>14
  <2>2. ASSUME NEW a \in 1 .. Len(emitted'[w]) PROVE OnTheWay(w, emitted[w][a])'
    <3>1. e \o t \in Seq(Nat)
      BY <1>5
    <3>2. (e \o t)[a] \in Nat /\ a \in 1 .. Len(e \o t)
      BY <1>2, <3>1, ElementOf
    <3> QED
      BY <1>2, <1>15, <3>2
  <2> QED
    BY <2>1, <2>2 DEF KeptOf
<1> QED
  BY <1>9, <1>13, <1>16 DEF InOrder, Kept

-----------------------------------------------------------------------------
(* A crash leaves the beginning of the way: a place of it is kept when it is in
   the file by then, and no later one is when it is not. *)
LEMMA CrashWay ==
  ASSUME LogTypes, FramePlace, InOrder, Kept, Decoding, Counts, Crash
  PROVE  InOrder' /\ Kept' /\ Decoding' /\ crashes' = crashes + 1
<1>0. BodyLen \in Nat /\ FrameLen \in Nat /\ FrameLen > 0
  BY SyncAssumption DEF BodyLen
<1>1. /\ writing' = <<>> /\ queue' = <<>> /\ decoded' = [u \in Pushes |-> <<>>]
      /\ received' = [u \in Pushes |-> IF received[u] = 0 THEN 0 ELSE BodyLen]
      /\ emitted' = emitted /\ crashes' = crashes + 1
  BY DEF Crash
<1>2. PICK n \in 0 .. FrameLen - 1 :
        /\ n > 0 => writing # <<>> /\ ~appended
        /\ Len(file') = Len(file) + n
        /\ \A i \in 1 .. n : file'[Len(file) + i] = <<writing, i>>
  BY CrashFile
<1>3. \A i \in 1 .. Len(file) : file'[i] = file[i]
  BY CrashFile DEF FileGrows
<1>4. LogTypes'
  BY CrashTypes
<1>5. Len(file) \in Nat
  BY DEF LogTypes
<1>6. n \in Nat
  BY <1>0
<1>7. Len(queue) \in Nat
  BY DEF LogTypes
<1> DEFINE top == IF n = 0 THEN Len(file) ELSE Len(file) + 1
<1>8. ASSUME NEW u \in Pushes, NEW k \in Nat, NEW i \in Nat
      PROVE  Stages(u, k, i)' <=> Stages(u, k, i) /\ i <= top
  <2>1. ~BeingWritten(u, k, i)' /\ ~Queued(u, k, i)' /\ ~Decoded(u, k, i)'
    <3>1. ~BeingWritten(u, k, i)'
      BY <1>1 DEF BeingWritten
    <3>2. Len(queue') = 0 /\ Len(decoded'[u]) = 0
      BY <1>1
    <3>3. \A j \in Int : j \notin 1 .. 0
      OBVIOUS
    <3>4. 1 .. Len(queue') = {} /\ 1 .. Len(decoded'[u]) = {}
      BY <3>2
    <3>5. ~Queued(u, k, i)'
      BY <3>4 DEF Queued
    <3>6. ~Decoded(u, k, i)'
      BY <3>4 DEF Decoded
    <3> QED
      BY <3>1, <3>5, <3>6
  <2>2. Filed(u, k, i) => Filed(u, k, i)' /\ i <= top
    BY <1>2, <1>3, <1>5, <1>6 DEF Filed
  <2>3. BeingWritten(u, k, i) /\ i <= top => Filed(u, k, i)'
    <3> SUFFICES ASSUME BeingWritten(u, k, i), i <= top PROVE Filed(u, k, i)'
      OBVIOUS
    <3>1. i = Len(file) + 1 /\ writing = <<u, k>>
      BY DEF BeingWritten
    <3>2. n # 0
      BY <1>5, <3>1
    <3>3. 1 \in 1 .. n
      BY <1>6, <3>2
    <3>4. file'[i] = <<writing, 1>>
      BY <1>2, <3>1, <3>3
    <3>5. i \in 1 .. Len(file')
      BY <1>2, <1>5, <1>6, <3>1, <3>2
    <3> QED
      BY <3>1, <3>4, <3>5 DEF Filed
  <2>4. Queued(u, k, i) => ~(i <= top)
    <3> SUFFICES ASSUME Queued(u, k, i) PROVE ~(i <= top)
      OBVIOUS
    <3>1. PICK j \in 1 .. Len(queue) : j = i - (Len(file) + 1)
      BY DEF Queued
    <3>2. i > Len(file) + 1
      BY <1>5, <1>7, <3>1
    <3> QED
      BY <1>5, <3>2
  <2>5. Decoded(u, k, i) => ~(i <= top)
    <3> SUFFICES ASSUME Decoded(u, k, i) PROVE ~(i <= top)
      OBVIOUS
    <3>0. Len(decoded[u]) \in Nat
      BY DEF LogTypes
    <3>1. PICK j \in 1 .. Len(decoded[u]) : j = i - (Len(file) + 1 + Len(queue))
      BY DEF Decoded
    <3>2. i > Len(file) + 1
      BY <1>5, <1>7, <3>0, <3>1
    <3> QED
      BY <1>5, <3>2
  <2>6. Filed(u, k, i)' => i <= top /\ (Filed(u, k, i) \/ BeingWritten(u, k, i))
    <3> SUFFICES ASSUME Filed(u, k, i)'
                 PROVE  i <= top /\ (Filed(u, k, i) \/ BeingWritten(u, k, i))
      OBVIOUS
    <3>1. i \in 1 .. Len(file) + n /\ file'[i] = <<<<u, k>>, 1>>
      BY <1>2 DEF Filed
    <3>2. CASE i <= Len(file)
      <4>1. i \in 1 .. Len(file)
        BY <1>5, <1>6, <3>1, <3>2
      <4> QED
        BY <1>3, <1>5, <3>1, <3>2, <4>1 DEF Filed
    <3>3. CASE i > Len(file)
      <4>1. PICK j \in 1 .. n : i = Len(file) + j
        <5>1. i - Len(file) \in 1 .. n /\ i = Len(file) + (i - Len(file))
          BY <1>5, <1>6, <3>1, <3>3
        <5> QED
          BY <5>1
      <4>2. <<writing, j>> = <<<<u, k>>, 1>>
        BY <1>2, <3>1, <4>1
      <4>3. j = 1 /\ writing = <<u, k>>
        BY <4>2
      <4>4. n > 0 /\ n # 0
        BY <1>6, <4>1, <4>3
      <4>5. ~appended /\ i = Len(file) + 1
        BY <1>2, <4>1, <4>3, <4>4
      <4> QED
        BY <1>5, <4>3, <4>4, <4>5 DEF BeingWritten
    <3> QED
      BY <1>5, <1>6, <3>1, <3>2, <3>3
  <2> HIDE DEF top
  <2> QED
    BY <2>1, <2>2, <2>3, <2>4, <2>5, <2>6 DEF Stages
<1>9. top \in Nat
  BY <1>5
<1> HIDE DEF top
<1>10. ASSUME NEW u \in Pushes, NEW k \in Nat
       PROVE  /\ \A i \in Places(u, k)' : i \in Places(u, k) /\ i \in Nat /\ i <= top
              /\ \A i \in Places(u, k) : i \in Nat /\ (i <= top => OnTheWay(u, k)')
  <2>1. ASSUME NEW i \in Places(u, k)' PROVE i \in Places(u, k) /\ i \in Nat /\ i <= top
    <3>1. i \in Nat /\ Stages(u, k, i)'
      BY <1>4, <2>1, PlacesAreThen DEF PlacesKnown
    <3> QED
      BY <1>8, <3>1, PlacesAre DEF PlacesKnown
  <2>2. ASSUME NEW i \in Places(u, k) PROVE i \in Nat /\ (i <= top => OnTheWay(u, k)')
    <3>1. i \in Nat /\ Stages(u, k, i)
      BY PlacesAre DEF PlacesKnown
    <3>2. i <= top => Stages(u, k, i)'
      BY <1>8, <3>1
    <3> QED
      BY <1>4, <3>1, <3>2, PlacesAreThen DEF PlacesKnown, OnTheWay
  <2> QED
    BY <2>1, <2>2
<1>11. InOrder'
  BY <1>10 DEF InOrder, InOrderOf
<1>12. ASSUME NEW u \in Pushes, NEW i \in 1 .. Len(emitted[u])
       PROVE  /\ emitted[u][i] \in Nat /\ emitted[u][i] > 0 /\ emitted[u][i] * FrameLen \in Nat
              /\ received[u] # 0 /\ emitted[u][i] * FrameLen <= received[u]
  <2>1. /\ emitted[u] \in Seq(Nat) /\ emitted[u][i] > 0
        /\ emitted[u][i] * FrameLen <= received[u] /\ received[u] \in Nat
    BY DEF Decoding, LogTypes
  <2>2. PICK k \in Nat : k = emitted[u][i]
    BY <2>1, ElementOf
  <2>6. 1 \in Nat /\ 1 <= k
    BY <2>1, <2>2
  <2>3. 1 * FrameLen <= k * FrameLen
    <3>1. \A d, e, m \in Nat : d <= e => d * m <= e * m
      BY NotLarger
    <3> QED
      BY <1>0, <2>6, <3>1, Zenon
  <2>4. k * FrameLen \in Nat /\ 1 * FrameLen = FrameLen
    BY <1>0
  <2>5. received[u] # 0
    BY <1>0, <2>1, <2>2, <2>3, <2>4
  <2> QED
    BY <2>1, <2>2, <2>4, <2>5
<1>13. ASSUME NEW u \in Pushes PROVE KeptOf(u)'
  <2>1. \A k \in Nat : OnTheWay(u, k)' => \E a \in 1 .. Len(emitted'[u]) : emitted'[u][a] = k
    BY <1>1, <1>10 DEF Kept, KeptOf, OnTheWay
  <2>2. ASSUME NEW a \in 1 .. Len(emitted[u]), NEW b \in 1 .. Len(emitted[u]), a < b,
               NEW k \in Nat, k = emitted[u][a], NEW l \in Nat, l = emitted[u][b],
               OnTheWay(u, l)'
        PROVE  OnTheWay(u, k)'
    <3>1. k < l
      BY <2>2 DEF Decoding, Ordered
    <3>2. PICK j \in Places(u, l) : j \in Nat /\ j <= top
      BY <1>10, <2>2 DEF OnTheWay
    <3>3. OnTheWay(u, k)
      BY <2>2, <3>2 DEF Kept, KeptOf, OnTheWay
    <3>4. PICK i \in Places(u, k) : i \in Nat /\ (i <= top => OnTheWay(u, k)')
      BY <1>10, <3>3 DEF OnTheWay
    <3>5. ~(j < i)
      BY <3>1, <3>2, <3>4 DEF InOrder, InOrderOf
    <3> QED
      BY <1>9, <3>2, <3>4, <3>5
  <2>3. \A a, b \in 1 .. Len(emitted'[u]) :
          a < b /\ OnTheWay(u, emitted[u][b])' => OnTheWay(u, emitted[u][a])'
    <3> SUFFICES ASSUME NEW a \in 1 .. Len(emitted'[u]), NEW b \in 1 .. Len(emitted'[u]), a < b,
                        OnTheWay(u, emitted[u][b])'
                 PROVE  OnTheWay(u, emitted[u][a])'
      OBVIOUS
    <3>1. PICK k \in Nat, l \in Nat : k = emitted[u][a] /\ l = emitted[u][b]
      BY <1>1, <1>12
    <3>2. k = emitted'[u][a] /\ l = emitted'[u][b]
      BY <1>1, <3>1
    <3>3. OnTheWay(u, k)'
      BY <1>1, <2>2, <3>1, <3>2
    <3> QED
      BY <3>2, <3>3
  <2>4. crashes' # 0
    BY <1>1 DEF Counts
  <2>5. received'[u] < BodyLen => \A a \in 1 .. Len(emitted'[u]) : FALSE
    BY <1>0, <1>1, <1>12
  <2>6. BodyLen' = BodyLen
    BY DEF BodyLen
  <2> QED
    BY <2>1, <2>3, <2>4, <2>5, <2>6 DEF KeptOf
<1>14. Decoding'
  <2>1. ASSUME NEW u \in Pushes PROVE received[u] <= BodyLen /\ received[u] \in Nat
    BY DEF Decoding, LogTypes
  <2>2. ASSUME NEW u \in Pushes
        PROVE  /\ Ordered(emitted[u])
               /\ \A i \in 1 .. Len(emitted[u]) :
                    emitted[u][i] > 0 /\ emitted[u][i] * FrameLen <= received'[u]
               /\ received'[u] <= BodyLen
    BY <1>0, <1>1, <1>12, <2>1 DEF Decoding
  <2>3. BodyLen' = BodyLen /\ emitted' \in [Pushes -> Seq(Nat)]
    BY <1>1 DEF BodyLen, Decoding
  <2> QED
    BY <1>1, <2>2, <2>3 DEF Decoding, Ordered
<1> QED
  BY <1>1, <1>11, <1>13, <1>14 DEF Kept

-----------------------------------------------------------------------------
(* The torn frames of a file that a frame, or its beginning, is added to. *)
LEMMA TornGrows ==
  ASSUME LogTypes, Counts, FrameLen \in Nat, NEW n \in 0 .. FrameLen, FileGrows,
         Len(file') = Len(file) + n,
         \A i \in 1 .. n : file'[Len(file) + i] = <<writing, i>>
  PROVE  /\ Torn' \subseteq Torn \cup (IF n = FrameLen /\ n > 0 THEN {} ELSE {Len(file')})
         /\ \A i \in 1 .. Len(file') : file'[i][2] \in 1 .. FrameLen
<1>1. /\ Len(file) \in Nat /\ n \in Nat /\ \A i \in 1 .. Len(file) : file'[i] = file[i]
  BY DEF FileGrows
<1>2. \A i \in 1 .. Len(file) : file[i][2] \in 1 .. FrameLen
  BY DEF Counts
<1>3. ASSUME NEW i \in 1 .. Len(file'), i > Len(file)
      PROVE  \E j \in 1 .. n : i = Len(file) + j
  <2>1. i - Len(file) \in 1 .. n /\ i = Len(file) + (i - Len(file))
    BY <1>1, <1>3
  <2> QED
    BY <2>1
<1>4. ASSUME NEW i \in 1 .. Len(file') PROVE file'[i][2] \in 1 .. FrameLen
  <2>1. CASE i <= Len(file)
    <3>1. i \in 1 .. Len(file)
      BY <1>1, <2>1
    <3> QED
      BY <1>1, <1>2, <3>1
  <2>2. CASE i > Len(file)
    <3>1. PICK j \in 1 .. n : i = Len(file) + j
      BY <1>3, <2>2
    <3>2. file'[i] = <<writing, j>> /\ j \in 1 .. FrameLen
      BY <1>1, <3>1
    <3> QED
      BY <3>2
  <2> QED
    BY <1>1, <2>1, <2>2
<1>5. ASSUME NEW i \in Torn', i \notin Torn, i # Len(file')
      PROVE  FALSE
  <2>1. /\ i \in 1 .. Len(file') /\ file'[i][2] < FrameLen
        /\ file'[i + 1] # <<file'[i][1], file'[i][2] + 1>>
    BY <1>5 DEF Torn
  <2>2. CASE i < Len(file)
    <3>1. i \in 1 .. Len(file) /\ i + 1 \in 1 .. Len(file)
      BY <1>1, <2>1, <2>2
    <3>2. file'[i] = file[i] /\ file'[i + 1] = file[i + 1]
      BY <1>1, <3>1
    <3> QED
      BY <1>5, <2>1, <3>1, <3>2 DEF Torn
  <2>3. CASE i = Len(file)
    <3>1. i \in 1 .. Len(file)
      BY <1>1, <2>1, <2>3
    <3>2. file'[i] = file[i]
      BY <1>1, <3>1
    <3> QED
      BY <1>5, <2>1, <2>3, <3>1, <3>2 DEF Torn
  <2>4. CASE i > Len(file)
    <3>1. PICK j \in 1 .. n : i = Len(file) + j
      BY <1>3, <2>1, <2>4
    <3>2. j + 1 \in 1 .. n /\ i + 1 = Len(file) + (j + 1)
      BY <1>1, <1>5, <2>1, <3>1
    <3>3. file'[i] = <<writing, j>> /\ file'[i + 1] = <<writing, j + 1>>
      BY <3>1, <3>2
    <3> QED
      BY <2>1, <3>3
  <2> QED
    BY <1>1, <2>1, <2>2, <2>3, <2>4
<1>6. ASSUME NEW i \in Torn', n = FrameLen, n > 0, i = Len(file') PROVE FALSE
  <2>1. i \in 1 .. Len(file') /\ file'[i][2] < FrameLen
    BY <1>6 DEF Torn
  <2>2. n \in 1 .. n
    BY <1>1, <1>6
  <2>3. file'[i] = <<writing, n>>
    BY <1>6, <2>2
  <2> QED
    BY <1>1, <1>6, <2>1, <2>3
<1> QED
  BY <1>4, <1>5, <1>6

LEMMA TornFinite ==
  ASSUME LogTypes PROVE IsFiniteSet(Torn)
<1>1. Len(file) \in Nat
  BY DEF LogTypes
<1>2. IsFiniteSet(1 .. Len(file))
  BY <1>1, FS_Interval
<1>3. Torn \subseteq 1 .. Len(file)
  BY DEF Torn
<1> QED
  BY <1>2, <1>3, FS_Subset

(* A set with at most one element more. *)
LEMMA OneMore ==
  ASSUME NEW S, IsFiniteSet(S), NEW x, NEW T, T \subseteq S \cup {x}
  PROVE  Cardinality(T) <= Cardinality(S) + 1
<1>1. /\ IsFiniteSet(S \cup {x})
      /\ Cardinality(S \cup {x}) = Cardinality(S) \/ Cardinality(S \cup {x}) = Cardinality(S) + 1
  BY FS_AddElement
<1>2. /\ Cardinality(T) \in Nat /\ Cardinality(S) \in Nat
      /\ Cardinality(T) <= Cardinality(S \cup {x})
  BY <1>1, FS_Subset, FS_CardinalityType
<1> QED
  BY <1>1, <1>2

-----------------------------------------------------------------------------
LEMMA OrderInit == Init => OrderInv
<1> SUFFICES ASSUME Init PROVE OrderInv
  OBVIOUS
<1>1. LogInv /\ FramePlace
  BY RepeatInit DEF RepeatInv
<1>2. Decoding
  <2>1. <<>> \in Seq(Nat) /\ Len(<<>>) = 0 /\ BodyLen \in Nat
    BY SyncAssumption DEF BodyLen
  <2> QED
    BY <2>1 DEF Init, Decoding, Ordered
<1>3. Counts
  BY DEF Init, Counts
<1>4. ASSUME NEW u \in Pushes, NEW k \in Nat PROVE Places(u, k) = {}
  BY DEF Init, Places
<1>5. InOrder
  BY <1>4 DEF InOrder, InOrderOf
<1>6. Kept
  BY <1>4 DEF Init, Kept, KeptOf, OnTheWay
<1>7. Torn = {}
  BY DEF Init, Torn
<1>8. Cardinality({}) = 0
  BY FS_EmptySet
<1> QED
  BY <1>1, <1>2, <1>3, <1>5, <1>6, <1>7, <1>8 DEF Init, OrderInv

(* A step that leaves the file and what is decoded alone. *)
LEMMA SameCounts ==
  ASSUME Counts, Decoding, Cardinality(Torn) <= crashes, UNCHANGED <<file, crashes>>
  PROVE  Counts' /\ Cardinality(Torn)' <= crashes'
<1>1. Torn' = Torn
  BY DEF Torn
<1> QED
  BY <1>1 DEF Counts

LEMMA SameDecoding ==
  ASSUME Decoding, UNCHANGED <<received, emitted>>
  PROVE  Decoding'
BY DEF Decoding, Ordered, BodyLen

LEMMA OrderStep == OrderInv /\ [Next]_vars => OrderInv'
<1> SUFFICES ASSUME OrderInv, [Next]_vars PROVE OrderInv'
  OBVIOUS
<1>0. /\ LogTypes /\ PullTypes /\ FramePlace /\ Decoding /\ Counts /\ InOrder /\ Kept
      /\ Cardinality(Torn) <= crashes
  BY DEF OrderInv, LogInv
<1>1. LogInv' /\ LogTypes'
  BY StepInv DEF OrderInv, LogInv
<1> SUFFICES /\ FramePlace' /\ Decoding' /\ Counts' /\ InOrder' /\ Kept'
             /\ Cardinality(Torn)' <= crashes'
  BY <1>1 DEF OrderInv
<1>2. CASE \E u \in Pushes : Transact(u) \/ \E n \in 1 .. BodyLen : Receive(u, n)
  <2>1. UNCHANGED <<file, offset, appended, writing, crashes>>
    BY <1>2 DEF Transact, Receive, logVars
  <2>2. FramePlace' /\ Counts' /\ Cardinality(Torn)' <= crashes'
    BY <1>0, <2>1, SameFile, SameCounts
  <2>3. CASE \E u \in Pushes : Transact(u)
    <3>1. UNCHANGED <<received, emitted>>
      BY <2>3 DEF Transact
    <3> QED
      BY <1>0, <2>2, <2>3, <3>1, TransactWay, SameDecoding
  <2>4. CASE \E u \in Pushes : \E n \in 1 .. BodyLen : Receive(u, n)
    BY <1>0, <2>2, <2>4, ReceiveWay, ReceiveDecoding
  <2> QED
    BY <1>2, <2>3, <2>4
<1>3. CASE Take
  <2>1. UNCHANGED <<file, offset, appended, crashes, received, emitted>>
    BY <1>3 DEF Take, pushVars
  <2> QED
    BY <1>0, <1>3, <2>1, SameFile, SameCounts, SameDecoding, TakeWay
<1>4. CASE AppendBytes
  <2>0. FrameLen \in Nat /\ FrameLen > 0 /\ FrameLen \in 0 .. FrameLen
    BY SyncAssumption
  <2>1. UNCHANGED <<crashes, received, emitted>>
    BY <1>4 DEF AppendBytes, pushVars
  <2>2. /\ FramePlace' /\ FileGrows /\ Len(file') = Len(file) + FrameLen
        /\ \A i \in 1 .. FrameLen : file'[Len(file) + i] = <<writing, i>>
    BY <1>0, <1>4, AppendFile
  <2>3. /\ Torn' \subseteq Torn \cup (IF FrameLen = FrameLen /\ FrameLen > 0 THEN {} ELSE {Len(file')})
        /\ \A i \in 1 .. Len(file') : file'[i][2] \in 1 .. FrameLen
    BY <1>0, <2>0, <2>2, TornGrows
  <2>4. Torn' \subseteq Torn
    BY <2>0, <2>3
  <2>5. Cardinality(Torn') <= Cardinality(Torn) /\ Cardinality(Torn') \in Nat /\ Cardinality(Torn) \in Nat
    BY <1>0, <2>4, TornFinite, FS_Subset, FS_CardinalityType
  <2>6. Counts' /\ Cardinality(Torn)' <= crashes'
    BY <1>0, <2>1, <2>3, <2>5 DEF Counts
  <2> QED
    BY <1>0, <1>4, <2>1, <2>2, <2>6, SameDecoding, AppendWay
<1>5. CASE Written
  <2>1. UNCHANGED <<file, crashes, received, emitted>>
    BY <1>5 DEF Written, pushVars
  <2> QED
    BY <1>0, <1>5, <2>1, WrittenFile, SameCounts, SameDecoding, WrittenWay
<1>6. CASE Crash
  <2>0. FrameLen \in Nat
    BY SyncAssumption
  <2>1. FramePlace' /\ FileGrows
    BY <1>0, <1>6, CrashFile
  <2>2. InOrder' /\ Kept' /\ Decoding' /\ crashes' = crashes + 1
    BY <1>0, <1>6, CrashWay
  <2>3. PICK n \in 0 .. FrameLen - 1 :
          /\ Len(file') = Len(file) + n
          /\ \A i \in 1 .. n : file'[Len(file) + i] = <<writing, i>>
    BY <1>0, <1>6, CrashFile
  <2>4. n \in 0 .. FrameLen
    BY <2>0
  <2>5. /\ Torn' \subseteq Torn \cup (IF n = FrameLen /\ n > 0 THEN {} ELSE {Len(file')})
        /\ \A i \in 1 .. Len(file') : file'[i][2] \in 1 .. FrameLen
    BY <1>0, <2>0, <2>1, <2>3, <2>4, TornGrows
  <2>6. Torn' \subseteq Torn \cup {Len(file')}
    BY <2>5
  <2>7. Cardinality(Torn') <= Cardinality(Torn) + 1
    BY <1>0, <2>6, TornFinite, OneMore
  <2>8. IsFiniteSet(Torn) /\ IsFiniteSet(Torn)'
    BY <1>0, <1>1, TornFinite, PTL
  <2>9. Cardinality(Torn') \in Nat /\ Cardinality(Torn) \in Nat
    BY <2>8, FS_CardinalityType
  <2> QED
    BY <1>0, <2>1, <2>2, <2>5, <2>7, <2>9 DEF Counts
<1>7. CASE UNCHANGED vars \/ \E p \in Pulls : Pull(p) \/ Check(p) \/ Read(p) \/ EndOfFile(p) \/ Leave(p)
  <2>1. UNCHANGED <<received, decoded, emitted, queue, writing, appended, file, offset, crashes>>
    BY <1>7 DEF vars, pushVars, logVars, Pull, Check, Read, EndOfFile, Leave
  <2>2. \A u \in Pushes : \A k, i \in Nat : Stages(u, k, i)' <=> Stages(u, k, i)
    BY <2>1 DEF Stages, Filed, BeingWritten, Queued, Decoded
  <2> QED
    BY <1>0, <1>1, <2>1, <2>2, SameFile, SameCounts, SameDecoding, SameWay
<1> QED
  BY <1>2, <1>3, <1>4, <1>5, <1>6, <1>7 DEF Next

(* Frames are decoded once and in the order of their push, and logged once and
   in that order; the log misses none but those that a crash cut off, and has a
   torn frame at most for each crash: for any pushes, lengths and crashes. *)
THEOREM OrderKept == Spec => []LoggedInOrder
<1>1. OrderInv => LoggedInOrder
  <2> SUFFICES ASSUME OrderInv PROVE LoggedInOrder
    OBVIOUS
  <2>1. Decoding /\ InOrder /\ Kept /\ Cardinality(Torn) <= crashes
    BY DEF OrderInv
  <2>2. Frames \in Nat
    BY SyncAssumption
  <2> QED
    BY <2>1, <2>2 DEF LoggedInOrder, Decoding, Ordered, InOrder, InOrderOf, Kept, KeptOf
<1> QED
  BY <1>1, OrderInit, OrderStep, PTL DEF Spec
=============================================================================
