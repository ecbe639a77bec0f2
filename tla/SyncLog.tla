-------------------------------- MODULE SyncLog --------------------------------
(***************************************************************************)
(* The transaction log of src/sync.js.  Clients push streams of encoded    *)
(* transactions, which src/codec.js cuts into frames and decodes; the      *)
(* Synchronizer appends them to one file and hands every chunk it wrote to *)
(* the pulls that are connected.  A pull first reads the file from where   *)
(* its client asks, over and over until it has caught up with the offset,  *)
(* and connects then.                                                      *)
(*                                                                         *)
(* A frame is named <<u, k>>, the k-th transaction of push u, and has      *)
(* FrameLen bytes, the first HeadLen of them its length header.  A byte of *)
(* the file is named <<frame, i>>.  A pull is followed by the positions in *)
(* the file of the bytes that it passes on.                                *)
(***************************************************************************)
EXTENDS Integers, Sequences, FiniteSets

CONSTANTS
  Pushes,      \* the push requests
  Pulls,       \* the pull requests
  Frames,      \* number of transactions a push carries
  HeadLen,     \* bytes of a frame's header
  FrameLen,    \* bytes of a frame
  MaxCrashes   \* bound on the crashes of the process

ASSUME SyncAssumption ==
  /\ Frames \in Nat /\ MaxCrashes \in Nat
  /\ HeadLen \in Nat \ {0} /\ FrameLen \in Nat /\ HeadLen < FrameLen

VARIABLES
  received,    \* received[u]: bytes of push u that arrived
  decoded,     \* decoded[u]: its frames that are decoded but not yet written
  emitted,     \* history: the frames of u that were ever decoded
  queue,       \* what the Synchronizer's writer was given
  writing,     \* the frame being written to the file, <<>> if none
  appended,    \* the file already holds it
  file,        \* the bytes of the file
  offset,      \* Synchronizer.offset
  pull,        \* where a pull stands
  start,       \* the offset its client asked for
  pos,         \* pipeTo's offset: what it reads next
  got,         \* the positions of the bytes that it passed on
  crashes

pushVars == <<received, decoded, emitted>>
logVars == <<queue, writing, appended, file, offset>>
pullVars == <<pull, start, pos, got>>
vars == <<pushVars, logVars, pullVars, crashes>>

BodyLen == Frames * FrameLen
Frame == Pushes \X (1 .. Frames)

TypeOK ==
  /\ received \in [Pushes -> 0 .. BodyLen]
  /\ decoded \in [Pushes -> Seq(1 .. Frames)]
  /\ emitted \in [Pushes -> Seq(1 .. Frames)]
  /\ queue \in Seq(Frame) /\ writing \in Frame \cup {<<>>}
  /\ appended \in BOOLEAN /\ (appended => writing # <<>>)
  /\ file \in Seq(Frame \X (1 .. FrameLen))
  /\ offset = Len(file) - (IF appended THEN FrameLen ELSE 0)
  /\ pull \in [Pulls -> {"new", "checking", "reading", "connected", "gone"}]
  /\ start \in [Pulls -> Nat] /\ pos \in [Pulls -> Nat]
  /\ got \in [Pulls -> Seq(1 .. Len(file))]
  /\ crashes \in 0 .. MaxCrashes

Init ==
  /\ received = [u \in Pushes |-> 0]
  /\ decoded = [u \in Pushes |-> <<>>]
  /\ emitted = [u \in Pushes |-> <<>>]
  /\ queue = <<>> /\ writing = <<>> /\ appended = FALSE
  /\ file = <<>> /\ offset = 0
  /\ pull = [p \in Pulls |-> "new"]
  /\ start = [p \in Pulls |-> 0]
  /\ pos = [p \in Pulls |-> 0]
  /\ got = [p \in Pulls |-> <<>>]
  /\ crashes = 0

Numbers(m, n) == [i \in 1 .. n - m |-> m + i]    \* m + 1, ..., n

-----------------------------------------------------------------------------
(* Deviation: what is left of a chunk is returned together with its frames,
   and decoded again with the next chunk. *)
PartitionAgain(before, after) ==
  LET held == IF before >= FrameLen THEN before \div FrameLen - 1 ELSE 0
  IN Numbers(held, after \div FrameLen)

(* partition: a chunk of n bytes arrives.  The frames that are complete by now
   are cut off the buffer.  If what is left ends inside a header, the step
   returns no frame, those just cut off included. *)
Partition(before, after) ==
  LET held == before \div FrameLen
      whole == after \div FrameLen
      rest == after % FrameLen
  IN IF rest \in 1 .. HeadLen - 1 THEN <<>> ELSE Numbers(held, whole)

Receive(u, n) ==
  LET frames == Partition(received[u], received[u] + n)
  IN /\ received[u] + n <= BodyLen
     /\ received' = [received EXCEPT ![u] = @ + n]
     /\ decoded' = [decoded EXCEPT ![u] = @ \o frames]
     /\ emitted' = [emitted EXCEPT ![u] = @ \o frames]
     /\ UNCHANGED <<logVars, pullVars, crashes>>

(* addTransactor: the next transaction of the push goes to the writer. *)
Transact(u) ==
  /\ decoded[u] # <<>>
  /\ decoded' = [decoded EXCEPT ![u] = Tail(@)]
  /\ queue' = Append(queue, <<u, Head(decoded[u])>>)
  /\ UNCHANGED <<received, emitted, writing, appended, file, offset, pullVars, crashes>>

-----------------------------------------------------------------------------
(* poll: takes a transaction, and the file system appends its bytes. *)
Take ==
  /\ writing = <<>> /\ queue # <<>>
  /\ writing' = Head(queue) /\ queue' = Tail(queue)
  /\ UNCHANGED <<pushVars, appended, file, offset, pullVars, crashes>>

Bytes(frame, n) == [i \in 1 .. n |-> <<frame, i>>]

AppendBytes ==
  /\ writing # <<>> /\ ~appended
  /\ file' = file \o Bytes(writing, FrameLen)
  /\ appended' = TRUE
  /\ UNCHANGED <<pushVars, queue, writing, offset, pullVars, crashes>>

Connected == {p \in Pulls : pull[p] = "connected"}

(* Deviation: the chunk goes to the pulls, the offset stays behind. *)
WrittenUncounted ==
  /\ appended
  /\ writing' = <<>> /\ appended' = FALSE
  /\ got' = [p \in Pulls |->
               IF p \in Connected THEN got[p] \o Numbers(offset, offset + FrameLen)
               ELSE got[p]]
  /\ UNCHANGED <<pushVars, queue, file, offset, pull, start, pos, crashes>>

(* The write returns: the offset moves, and the chunk goes to every connected
   pull. *)
Written ==
  /\ appended
  /\ writing' = <<>> /\ appended' = FALSE
  /\ offset' = offset + FrameLen
  /\ got' = [p \in Pulls |->
               IF p \in Connected THEN got[p] \o Numbers(offset, offset + FrameLen)
               ELSE got[p]]
  /\ UNCHANGED <<pushVars, queue, file, pull, start, pos, crashes>>

-----------------------------------------------------------------------------
(* A client pulls from an offset within the file. *)
Pull(p) ==
  /\ pull[p] = "new"
  /\ \E n \in 0 .. Len(file) :
       start' = [start EXCEPT ![p] = n] /\ pos' = [pos EXCEPT ![p] = n]
  /\ pull' = [pull EXCEPT ![p] = "checking"]
  /\ UNCHANGED <<pushVars, logVars, got, crashes>>

(* Deviation: the pull connects after one pass over the file. *)
CheckOnce(p) ==
  /\ pull[p] = "checking"
  /\ pull' = [pull EXCEPT ![p] =
                IF pos[p] < offset /\ got[p] = <<>> THEN "reading" ELSE "connected"]
  /\ UNCHANGED <<pushVars, logVars, start, pos, got, crashes>>

(* pipeTo's loop: read the file once more, or become a consumer. *)
Check(p) ==
  /\ pull[p] = "checking"
  /\ pull' = [pull EXCEPT ![p] = IF pos[p] < offset THEN "reading" ELSE "connected"]
  /\ UNCHANGED <<pushVars, logVars, start, pos, got, crashes>>

(* The read stream returns some of the bytes the file holds by now. *)
Read(p) ==
  /\ pull[p] = "reading"
  /\ \E n \in pos[p] + 1 .. Len(file) :
       /\ got' = [got EXCEPT ![p] = @ \o Numbers(pos[p], n)]
       /\ pos' = [pos EXCEPT ![p] = n]
  /\ UNCHANGED <<pushVars, logVars, pull, start, crashes>>

(* Deviation: a pass over the file may end before its end. *)
EndAnywhere(p) ==
  /\ pull[p] = "reading"
  /\ pull' = [pull EXCEPT ![p] = "checking"]
  /\ UNCHANGED <<pushVars, logVars, start, pos, got, crashes>>

EndOfFile(p) ==
  /\ pull[p] = "reading" /\ pos[p] >= Len(file)
  /\ pull' = [pull EXCEPT ![p] = "checking"]
  /\ UNCHANGED <<pushVars, logVars, start, pos, got, crashes>>

Leave(p) ==
  /\ pull[p] # "new" /\ pull[p] # "gone"
  /\ pull' = [pull EXCEPT ![p] = "gone"]
  /\ UNCHANGED <<pushVars, logVars, start, pos, got, crashes>>

(* The process dies, and a write that was under way may leave the beginning of
   its frame behind; open then takes the size of the file for the offset. *)
Crash ==
  /\ crashes < MaxCrashes
  /\ crashes' = crashes + 1
  /\ \E n \in 0 .. FrameLen - 1 :
       /\ n > 0 => writing # <<>> /\ ~appended
       /\ file' = file \o Bytes(writing, n)
  /\ offset' = Len(file')
  /\ queue' = <<>> /\ writing' = <<>> /\ appended' = FALSE
  /\ received' = [u \in Pushes |-> IF received[u] = 0 THEN 0 ELSE BodyLen]
  /\ decoded' = [u \in Pushes |-> <<>>]
  /\ pull' = [p \in Pulls |-> IF pull[p] = "new" THEN "new" ELSE "gone"]
  /\ UNCHANGED <<emitted, start, pos, got>>

-----------------------------------------------------------------------------
Next ==
  \/ \E u \in Pushes : Transact(u) \/ \E n \in 1 .. BodyLen : Receive(u, n)
  \/ Take \/ AppendBytes \/ Written \/ Crash
  \/ \E p \in Pulls : Pull(p) \/ Check(p) \/ Read(p) \/ EndOfFile(p) \/ Leave(p)

(* The event loop and the file system go on; clients need not. *)
Fairness ==
  /\ \A u \in Pushes : WF_vars(Transact(u))
  /\ WF_vars(Take) /\ WF_vars(AppendBytes) /\ WF_vars(Written)
  /\ \A p \in Pulls : WF_vars(Check(p) \/ Read(p) \/ EndOfFile(p))

Spec == Init /\ [][Next]_vars
FairSpec == Spec /\ Fairness

-----------------------------------------------------------------------------
(* A pull passes on the bytes of the log from its start on and skips none,
   though it changes from reading the file to being handed chunks while both
   grow. *)
NoByteSkipped == \A p \in Pulls :
  /\ got[p] # <<>> => got[p][1] <= start[p] + 1
  /\ \A i \in 1 .. Len(got[p]) - 1 : got[p][i + 1] <= got[p][i] + 1

(* A pull that reads the file past the offset and then connects gets the frame
   being written twice.  It gets no other frame twice, and never a part of
   one, so that what it passes on can still be cut into frames. *)
Jumps(p) == {i \in 1 .. Len(got[p]) - 1 : got[p][i + 1] # got[p][i] + 1}

OnlyWholeFramesRepeat == \A p \in Pulls :
  /\ \A i, j \in Jumps(p) : i = j
  /\ \A i \in Jumps(p) :
       LET last == file[got[p][i]]
           next == file[got[p][i + 1]]
       IN last[1] = next[1] /\ last[2] = FrameLen /\ next[2] = 1

(* Where a frame stands on its way into the file: it is decoded, then queued,
   then written, and in the file its first byte stands for it.  The places are
   counted from the beginning of the file. *)
Places(u, k) ==
  {i \in 1 .. Len(file) : file[i] = <<<<u, k>>, 1>>}
  \cup (IF writing = <<u, k>> /\ ~appended THEN {Len(file) + 1} ELSE {})
  \cup {Len(file) + 1 + i : i \in {j \in 1 .. Len(queue) : queue[j] = <<u, k>>}}
  \cup {Len(file) + 1 + Len(queue) + i :
          i \in {j \in 1 .. Len(decoded[u]) : decoded[u][j] = k}}

OnTheWay(u, k) == Places(u, k) # {}

Torn ==
  {i \in 1 .. Len(file) : file[i][2] < FrameLen
     /\ (i = Len(file) \/ file[i + 1] # <<file[i][1], file[i][2] + 1>>)}

(* The frames of a push are decoded at most once and in order, and those that
   are in the file or on their way to it come in the order of the push, each
   once.  None is missing unless the process died, and then those that follow
   are missing too: it never loses a frame and keeps a later one.  The file has
   no more than one torn frame for each time it did. *)
LoggedInOrder ==
  /\ \A u \in Pushes :
       /\ \A i, j \in 1 .. Len(emitted[u]) : i < j => emitted[u][i] < emitted[u][j]
       /\ \A k, l \in 1 .. Frames : \A i \in Places(u, k), j \in Places(u, l) :
            i < j => k < l
       /\ \A k \in 1 .. Frames : OnTheWay(u, k) => \E i \in 1 .. Len(emitted[u]) : emitted[u][i] = k
       /\ \A i, j \in 1 .. Len(emitted[u]) :
            i < j /\ OnTheWay(u, emitted[u][j]) => OnTheWay(u, emitted[u][i])
       /\ crashes = 0 => \A i \in 1 .. Len(emitted[u]) : OnTheWay(u, emitted[u][i])
  /\ Cardinality(Torn) <= crashes

(* Every pull that stays comes to have passed on the last byte of the file, and
   with NoByteSkipped all before it, once pushes no longer add to it. *)
PullsCatchUp == \A p \in Pulls :
  <>[](\/ pull[p] \in {"new", "gone"} \/ start[p] >= Len(file)
       \/ got[p] # <<>> /\ got[p][Len(got[p])] = Len(file))

(* What partition says of its loop: "If we have enough bytes to decode we
   decode a transaction." *)
CompleteFramesDecoded == \A u \in Pushes :
  crashes = 0 => emitted[u] = Numbers(0, received[u] \div FrameLen)
=============================================================================
