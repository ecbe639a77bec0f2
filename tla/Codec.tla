------------------------------- MODULE Codec -------------------------------
(***************************************************************************)
(* The transaction codec of src/codec.js on top of the fact store: a       *)
(* transaction that is logged becomes a patch, which has one place for an  *)
(* assertion, one for a retraction and one for an upsert under every pair  *)
(* of entity and attribute, and a replica that pulls the log performs the  *)
(* instructions that are read off the patch.                               *)
(***************************************************************************)
EXTENDS FactStore

Lists == INSTANCE SequencesExt

CONSTANTS
  Falsy,       \* the values that JavaScript takes for false: null, 0, "", false
  MaxLogged    \* bound on the instructions of a transaction that is logged

ASSUME CodecAssumption == Falsy \subseteq Values /\ MaxLogged \in Nat

Kinds == {"Assert", "Retract", "Upsert"}
Instructions == [kind : Kinds, fact : Facts]
Transactions == UNION {[1 .. n -> Instructions] : n \in 0 .. MaxLogged}

Place(i) == <<i.fact[1], i.fact[2], i.kind>>

(* Deviation: an entity has one place, whatever the attribute. *)
MarkEntity(patch, i) ==
  [p \in {q \in DOMAIN patch : q[1] # i.fact[1]} \cup {Place(i)} |->
     IF p = Place(i) THEN i.fact[3] ELSE patch[p]]

(* assert, retract and upsert of codec.js put the value into its place; an
   Import is as many assertions as its object has facts. *)
Mark(patch, i) ==
  [p \in DOMAIN patch \cup {Place(i)} |-> IF p = Place(i) THEN i.fact[3] ELSE patch[p]]

EncodeTransaction(transaction) ==
  LET patch[n \in 0 .. Len(transaction)] ==
        IF n = 0 THEN <<>> ELSE Mark(patch[n - 1], transaction[n])
  IN  patch[Len(transaction)]

(* The instructions at one entity and attribute; a value is tested by `if`. *)
SlotOf(patch, entity, attribute) ==
  LET read(kind) ==
        IF <<entity, attribute, kind>> \in DOMAIN patch
           /\ patch[<<entity, attribute, kind>>] \notin Falsy
        THEN << [kind |-> kind, fact |-> <<entity, attribute, patch[<<entity, attribute, kind>>]>>] >>
        ELSE <<>>
  IN  read("Assert") \o read("Retract") \o read("Upsert")

(* CBOR sorts the entities and attributes, which come in an order that has
   nothing to do with that of the transaction: any of them. *)
ReadOff(patch, order) ==
  LET read[n \in 0 .. Len(order)] ==
        IF n = 0 THEN <<>> ELSE read[n - 1] \o SlotOf(patch, order[n][1], order[n][2])
  IN  read[Len(order)]

DecodeTransaction(patch) ==
  {ReadOff(patch, order) :
     order \in Lists!SetToSeqs({<<p[1], p[2]>> : p \in DOMAIN patch})}

(* The server decodes what is pushed and encodes it for its log. *)
Logged(transaction) ==
  UNION {DecodeTransaction(EncodeTransaction(pushed)) :
           pushed \in DecodeTransaction(EncodeTransaction(transaction))}

-----------------------------------------------------------------------------
(* What transact of the store makes of the instructions, within commit c. *)
Instruct(seen, i, c) ==
  CASE i.kind = "Assert"  -> Put(seen, i.fact, c)
    [] i.kind = "Retract" -> Delete(seen, {i.fact})
    [] i.kind = "Upsert"  -> Put(Delete(seen, Slot(seen, i.fact)), i.fact, c)

Perform(entries, transaction, c) ==
  LET seen[n \in 0 .. Len(transaction)] ==
        IF n = 0 THEN entries ELSE Instruct(seen[n - 1], transaction[n], c)
  IN  seen[Len(transaction)]

(* Two instructions, the first before the second, that a patch keeps apart:
   they have different places, and reading them as Assert, Retract, Upsert
   changes nothing. *)
KeptApart(i, j) ==
  \/ <<i.fact[1], i.fact[2]>> # <<j.fact[1], j.fact[2]>>
  \/ i = j
  \/ i.kind # "Upsert" /\ j.kind = "Upsert"
  \/ {i.kind, j.kind} = {"Assert", "Retract"} /\ (i.fact # j.fact \/ i.kind = "Assert")

Loggable(transaction) ==
  \A n, m \in DOMAIN transaction : n < m => KeptApart(transaction[n], transaction[m])

Truthy(transaction) ==
  LET truthy[n \in 0 .. Len(transaction)] ==
        IF n = 0 THEN <<>>
        ELSE IF transaction[n].fact[3] \in Falsy THEN truthy[n - 1]
        ELSE Append(truthy[n - 1], transaction[n])
  IN  truthy[Len(transaction)]

(* A replica that performs what it pulls from the log comes to the same facts
   as the one that transacted, in whatever order the log has the places and
   from any state of the store that a transaction meets, as long as no two
   instructions of the transaction meet in a place or come in another order
   than a patch reads them.  Instructions with a falsy value get lost, and
   nothing else does. *)
ReplicasAgree ==
  ~writing /\ commits < MaxCommits => \A t \in Transactions : Loggable(t) =>
    \A logged \in Logged(t) :
      Perform(stored, logged, commits + 1) = Perform(stored, Truthy(t), commits + 1)
=============================================================================
